---- MODULE Spec2Model ----
(***************************************************************************)
(* The DDoS classifiers of CveDash: the strict and the tight gated scorer  *)
(* (both in src/src/test-status-values.ts) and the keyword detector        *)
(* (src/src/utils/ddosDetection.ts), applied to NVD 2.0 CVE records.       *)
(* A record is a JavaScript value; strings are TLA+ strings, on which      *)
(* Len, SubSeq and \o act as on sequences of characters.                   *)
(***************************************************************************)
EXTENDS Integers, Sequences, FiniteSets, TLC

VARIABLES
  cve,    \* the value handed to the classifier
  call,   \* the entry point that ran last ("none" before the first call)
  out,    \* what the caller got: a verdict, a boolean, or a thrown error
  score,  \* the local `score` of getDdosAnalysisDetails when it returned
  history, \* the calls made on the value so far, each with its outcome
  left,    \* the calls the caller has yet to make on the value
  cve_entries, \* the rows of the cve_entries table, oldest first
  manager, \* the CveSqliteManager: its db field and the connections it opened
  files    \* the database file: whether it exists, holds the table, its backups

vars == <<cve, call, out, score, history, left, cve_entries, manager, files>>

---------------------------------------------------------------------------
(* JavaScript values. An absent property reads as undefined, so an object  *)
(* lists only the properties that matter.                                  *)

Undefined == [t |-> "undefined"]
Null == [t |-> "null"]
Bool(b) == [t |-> "boolean", b |-> b]
Num(n) == [t |-> "number", n |-> n]
Str(s) == [t |-> "string", s |-> s]
Arr(a) == [t |-> "array", a |-> a]
Obj(o) == [t |-> "object", o |-> o]
EmptyObject == Obj(<<>>)
EmptyArray == Arr(<<>>)

IsString(v) == v.t = "string"
IsArray(v) == v.t = "array"
Nullish(v) == v.t \in {"undefined", "null"}

Truthy(v) ==
  CASE v.t = "undefined" -> FALSE
    [] v.t = "null" -> FALSE
    [] v.t = "boolean" -> v.b
    [] v.t = "number" -> v.n # 0
    [] v.t = "string" -> v.s # ""
    [] OTHER -> TRUE

\* a || b
OrElse(a, b) == IF Truthy(a) THEN a ELSE b

\* a ?? b
Coalesce(a, b) == IF Nullish(a) THEN b ELSE a

\* v.k and v?.k for a named property k (never .length); on the values the
\* classifiers read, v is never null or undefined where the code writes v.k
Get(v, k) == IF v.t = "object" /\ k \in DOMAIN v.o THEN v.o[k] ELSE Undefined

\* v[0] and v?.[0]
First(v) ==
  CASE v.t = "array" /\ Len(v.a) > 0 -> v.a[1]
    [] v.t = "string" /\ Len(v.s) > 0 -> Str(SubSeq(v.s, 1, 1))
    [] OTHER -> Undefined

Min(S) == CHOOSE x \in S : \A y \in S : x <= y

LowerLetters == "abcdefghijklmnopqrstuvwxyz"
UpperLetters == "ABCDEFGHIJKLMNOPQRSTUVWXYZ"

Letters == 1..Len(LowerLetters)

UpperOf ==
  [c \in {SubSeq(LowerLetters, i, i) : i \in Letters} |->
     LET i == CHOOSE j \in Letters : SubSeq(LowerLetters, j, j) = c IN SubSeq(UpperLetters, i, i)]

LowerOf ==
  [c \in {SubSeq(UpperLetters, i, i) : i \in Letters} |->
     LET i == CHOOSE j \in Letters : SubSeq(UpperLetters, j, j) = c IN SubSeq(LowerLetters, i, i)]

MapChar(c, table) == IF c \in DOMAIN table THEN table[c] ELSE c

RECURSIVE MapString(_, _)
MapString(s, table) ==
  IF s = "" THEN ""
  ELSE MapChar(SubSeq(s, 1, 1), table) \o MapString(SubSeq(s, 2, Len(s)), table)

toUpperCase(s) == MapString(s, UpperOf)

toLowerCase(s) == MapString(s, LowerOf)

\* text.includes(k)
includes(text, k) ==
  \E i \in 1..(Len(text) - Len(k) + 1) : SubSeq(text, i, i + Len(k) - 1) = k

\* list.some(k => text.includes(k))
includesAny(text, list) == \E j \in 1..Len(list) : includes(text, list[j])

RECURSIVE DecimalDigits(_)
DecimalDigits(n) ==
  IF n < 10 THEN SubSeq("0123456789", n + 1, n + 1)
  ELSE DecimalDigits(n \div 10) \o SubSeq("0123456789", (n % 10) + 1, (n % 10) + 1)

\* String(v)
RECURSIVE StringOf(_)
RECURSIVE JoinValues(_, _)
StringOf(v) ==
  CASE v.t = "undefined" -> "undefined"
    [] v.t = "null" -> "null"
    [] v.t = "boolean" -> IF v.b THEN "true" ELSE "false"
    [] v.t = "number" -> IF v.n < 0 THEN "-" \o DecimalDigits(0 - v.n) ELSE DecimalDigits(v.n)
    [] v.t = "string" -> v.s
    [] v.t = "array" -> JoinValues(v.a, ",")
    [] OTHER -> "[object Object]"
JoinValues(a, sep) ==
  IF Len(a) = 0 THEN ""
  ELSE (IF Nullish(a[1]) THEN "" ELSE StringOf(a[1]))
       \o (IF Len(a) = 1 THEN "" ELSE sep \o JoinValues(Tail(a), sep))

\* strings.join(sep)
RECURSIVE join(_, _)
join(a, sep) ==
  IF Len(a) = 0 THEN ""
  ELSE a[1] \o (IF Len(a) = 1 THEN "" ELSE sep \o join(Tail(a), sep))

\* ...(v): the elements an array or a string spreads to
Spread(v) ==
  CASE v.t = "array" -> v.a
    [] v.t = "string" -> [i \in 1..Len(v.s) |-> Str(SubSeq(v.s, i, i))]
    [] OTHER -> <<>>

\* ...(v) throws a TypeError on a value that is not iterable
SpreadThrows(v) == v.t \notin {"array", "string"}

---------------------------------------------------------------------------
(* The strict detector, src/src/test-status-values.ts 415-640               *)

\* Variant of VersionKeys: the v3.1 list read first, as ddosDetection.ts does.
VersionKeysV31First == <<"cvssMetricV31", "cvssMetricV40", "cvssMetricV30", "cvssMetricV2">>

VersionKeys == <<"cvssMetricV40", "cvssMetricV31", "cvssMetricV30", "cvssMetricV2">>

metricsOf(c) == OrElse(Get(c, "metrics"), EmptyObject)

RECURSIVE SpreadAll(_, _)
SpreadAll(m, keys) ==
  IF Len(keys) = 0 THEN <<>>
  ELSE Spread(OrElse(Get(m, keys[1]), EmptyArray)) \o SpreadAll(m, Tail(keys))

\* pickByTypePriority of the table-entry converter: the first entry typed
\* primary, else the first typed secondary, else the first entry
getType(m) == toLowerCase(StringOf(OrElse(Get(m, "type"), Str(""))))

\* Variant of pickByTypePriority: the type compared as written, without
\* toLowerCase.
pickByTypePriorityExact(list) ==
  IF ~IsArray(list) \/ Len(list.a) = 0 THEN Null
  ELSE LET typed(t) == {j \in 1..Len(list.a) :
                          StringOf(OrElse(Get(list.a[j], "type"), Str(""))) = t}
       IN IF typed("primary") # {} THEN list.a[Min(typed("primary"))]
          ELSE IF typed("secondary") # {} THEN list.a[Min(typed("secondary"))]
          ELSE list.a[1]

pickByTypePriority(list) ==
  IF ~IsArray(list) \/ Len(list.a) = 0 THEN Null
  ELSE LET typed(t) == {j \in 1..Len(list.a) : getType(list.a[j]) = t}
       IN IF typed("primary") # {} THEN list.a[Min(typed("primary"))]
          ELSE IF typed("secondary") # {} THEN list.a[Min(typed("secondary"))]
          ELSE list.a[1]

\* Variant of allMetricEntries: of each version only the entry that
\* pickByTypePriority selects, as extractTableEntriesFromJson reads the lists.
allMetricEntriesPreferred(c) ==
  LET picks == [j \in 1..Len(VersionKeys) |->
                  pickByTypePriority(Get(metricsOf(c), VersionKeys[j]))]
  IN SelectSeq(picks, LAMBDA p : p.t # "null")

\* const all = [...(m.cvssMetricV40 || []), ...(m.cvssMetricV31 || []), ...]
allMetricEntries(c) == SpreadAll(metricsOf(c), VersionKeys)

\* Variant of allMetricEntriesThrows: cve.metrics read without the optional
\* chaining, a TypeError on null and undefined.
allMetricEntriesThrowsUnchained(c) ==
  \/ Nullish(c)
  \/ \E j \in 1..Len(VersionKeys) :
       SpreadThrows(OrElse(Get(OrElse(Get(c, "metrics"), EmptyObject), VersionKeys[j]), EmptyArray))

allMetricEntriesThrows(c) ==
  \E j \in 1..Len(VersionKeys) :
    SpreadThrows(OrElse(Get(metricsOf(c), VersionKeys[j]), EmptyArray))

parseEnum(v, allowed) ==
  LET val == toUpperCase(StringOf(Coalesce(v, Str(""))))
  IN IF val \in allowed THEN Str(val) ELSE Undefined

parseAv(v) == parseEnum(v, {"NETWORK", "ADJACENT", "LOCAL", "PHYSICAL"})
parseAc(v) == parseEnum(v, {"LOW", "HIGH", "L", "H"})
parseUi(v) == parseEnum(v, {"NONE", "REQUIRED", "N", "R"})
parsePr(v) == parseEnum(v, {"NONE", "LOW", "HIGH", "N", "L", "H"})
parseImpact(v) == parseEnum(v, {"NONE", "LOW", "HIGH", "COMPLETE", "N", "L", "H"})

cvssDataOf(x) == OrElse(Get(x, "cvssData"), EmptyObject)

normOf(x) ==
  LET d == cvssDataOf(x)
  IN [av |-> parseAv(OrElse(OrElse(Get(d, "attackVector"), Get(d, "accessVector")), Get(d, "av"))),
      ac |-> parseAc(OrElse(OrElse(Get(d, "attackComplexity"), Get(d, "accessComplexity")), Get(d, "ac"))),
      ui |-> parseUi(OrElse(Get(d, "userInteraction"), Get(d, "ui"))),
      pr |-> parsePr(OrElse(Get(d, "privilegesRequired"), Get(d, "pr"))),
      a |-> parseImpact(OrElse(Get(d, "availabilityImpact"), Get(d, "va"))),
      c |-> parseImpact(OrElse(Get(d, "confidentialityImpact"), Get(d, "vc"))),
      i |-> parseImpact(OrElse(Get(d, "integrityImpact"), Get(d, "vi")))]

extractNormCvss(c) ==
  LET all == allMetricEntries(c)
  IN [j \in 1..Len(all) |-> normOf(all[j])]

IsOneOf(v, names) == IsString(v) /\ v.s \in names

impactLow(v) == ~Truthy(v) \/ IsOneOf(v, {"NONE", "LOW", "N", "L"})

gateProfile(n) ==
  /\ IsOneOf(n.av, {"NETWORK", "ADJACENT"})
  /\ IsOneOf(n.a, {"HIGH", "COMPLETE", "H"})
  /\ impactLow(n.c)
  /\ impactLow(n.i)

orNA(v) == IF Truthy(v) THEN v.s ELSE "N/A"

bonusNotes(n) ==
  (IF IsOneOf(n.pr, {"NONE", "N"}) THEN <<"PR:N">> ELSE <<>>)
  \o (IF IsOneOf(n.ui, {"NONE", "N"}) THEN <<"UI:N">> ELSE <<>>)
  \o (IF IsOneOf(n.ac, {"LOW", "L"}) THEN <<"AC:L">> ELSE <<>>)

\* Variant of gateBonus: any recognised privilegesRequired but HIGH earns the point.
gateBonusLowPrivilege(n) ==
  (IF IsOneOf(n.pr, {"NONE", "N", "LOW", "L"}) THEN 1 ELSE 0)
  + (IF IsOneOf(n.ui, {"NONE", "N"}) THEN 1 ELSE 0)
  + (IF IsOneOf(n.ac, {"LOW", "L"}) THEN 1 ELSE 0)

gateBonus(n) ==
  (IF IsOneOf(n.pr, {"NONE", "N"}) THEN 1 ELSE 0)
  + (IF IsOneOf(n.ui, {"NONE", "N"}) THEN 1 ELSE 0)
  + (IF IsOneOf(n.ac, {"LOW", "L"}) THEN 1 ELSE 0)

gateHit(n) ==
  [passed |-> TRUE,
   bonus |-> gateBonus(n),
   reasons |-> <<"CVSS gate: AV=" \o n.av.s \o ", A=" \o orNA(n.a)
                  \o ", C=" \o orNA(n.c) \o ", I=" \o orNA(n.i)>> \o bonusNotes(n)]

GateMiss == [passed |-> FALSE, bonus |-> 0, reasons |-> <<>>]

\* for (const n of norms) { if (profile) { ...; break; } }
RECURSIVE gateLoop(_, _)
gateLoop(norms, j) ==
  IF j > Len(norms) THEN GateMiss
  ELSE IF gateProfile(norms[j]) THEN gateHit(norms[j])
  ELSE gateLoop(norms, j + 1)

metricsPassGate(norms) == gateLoop(norms, 1)

AmplificationLexicon ==
  <<"amplification", "amplify", "reflect", "reflection", "reflected", "drdos",
    "spoof", "spoofed", "spoofing", "open resolver", "traffic amplification",
    "packet amplification", "bandwidth amplification", "bandwidth exhaustion", "ddos",
    "distributed denial of service", "distributed denial", "ddos attack",
    "ddos attack vector", "ddos attack surface", "ddos attack vector",
    "ddos attack surface", "ddos attack vector", "ddos attack surface",
    "ntp", "monlist", "dns", "open dns resolver", "mdns", "ssdp", "ws-discovery",
    "cldap", "ldap", "snmp", "chargen", "qotd", "mssql", "memcached", "coap",
    "ripv1", "nbns", "sntp">>

hasAmplificationLexicon(text) ==
  text # "" /\ includesAny(toLowerCase(text), AmplificationLexicon)

NegativeHints ==
  <<"sql injection", "sql-injection", "sqli",
    "cross-site scripting", "xss",
    "null pointer", "use-after-free", "out-of-bounds", "oob read", "oob write",
    "integer overflow", "infinite loop", "resource exhaustion", "memory exhaustion",
    "cpu exhaustion", "hang", "crash", "kernel panic", "local user", "authenticated user">>

hasNegativeHints(text) ==
  text # "" /\ includesAny(toLowerCase(text), NegativeHints)

StrongDdosCwe == {"CWE-405", "CWE-406", "CWE-770"}

hasStrongDdosCwe(cweIds) == \E j \in 1..Len(cweIds) : cweIds[j] \in StrongDdosCwe

RefTerms == <<"ddos", "drdos", "amplification", "reflection", "booter", "stresser">>
RefVendors == <<"cloudflare", "akamai", "netscout", "arbor", "imperva", "cisa.gov">>

hasDdosRefHints(refs) ==
  /\ Len(refs) # 0
  /\ \/ \E j \in 1..Len(refs) : includesAny(refs[j], RefTerms)
     \/ \E j \in 1..Len(refs) : includesAny(refs[j], RefVendors)

\* Variant of getEnglishDescription: the first entry whatever its language.
getEnglishDescriptionFirst(c) ==
  LET first == Get(First(Get(c, "descriptions")), "value")
  IN IF IsArray(Get(c, "descriptions")) /\ Truthy(first) THEN toLowerCase(StringOf(first)) ELSE ""

getEnglishDescription(c) ==
  LET descriptions == Get(c, "descriptions")
  IN IF ~IsArray(descriptions) THEN ""
     ELSE LET hits == {j \in 1..Len(descriptions.a) : Get(descriptions.a[j], "lang") = Str("en")}
              en == IF hits = {} THEN Undefined ELSE descriptions.a[Min(hits)]
              first == Get(First(descriptions), "value")
          IN IF Truthy(Get(en, "value")) THEN toLowerCase(StringOf(Get(en, "value")))
             ELSE IF Truthy(first) THEN toLowerCase(StringOf(first))
             ELSE ""

\* getEnglishDescription of the table-entry converter: the same selection, the
\* text kept in its letter case
getEnglishDescriptionTable(c) ==
  LET descriptions == Get(c, "descriptions")
  IN IF ~IsArray(descriptions) THEN ""
     ELSE LET hits == {j \in 1..Len(descriptions.a) : Get(descriptions.a[j], "lang") = Str("en")}
              en == IF hits = {} THEN Undefined ELSE descriptions.a[Min(hits)]
              first == Get(First(descriptions), "value")
          IN IF Truthy(Get(en, "value")) THEN StringOf(Get(en, "value"))
             ELSE IF Truthy(first) THEN StringOf(first)
             ELSE ""

RECURSIVE cweValues(_)
cweValues(descs) ==
  IF Len(descs) = 0 THEN <<>>
  ELSE LET v == Get(descs[1], "value")
       IN (IF IsString(v) /\ v.s # "" THEN <<v.s>> ELSE <<>>) \o cweValues(Tail(descs))

RECURSIVE cweLoop(_)
cweLoop(ws) ==
  IF Len(ws) = 0 THEN <<>>
  ELSE LET descs == Get(ws[1], "description")
       IN (IF IsArray(descs) THEN cweValues(descs.a) ELSE <<>>) \o cweLoop(Tail(ws))

getCweIds(c) ==
  LET weaknesses == Get(c, "weaknesses")
  IN IF IsArray(weaknesses) THEN cweLoop(weaknesses.a) ELSE <<>>

RECURSIVE refLoop(_)
refLoop(rs) ==
  IF Len(rs) = 0 THEN <<>>
  ELSE LET url == Get(rs[1], "url")
           name == Get(rs[1], "name")
       IN (IF Truthy(url) THEN <<toLowerCase(StringOf(url))>> ELSE <<>>)
          \o (IF Truthy(name) THEN <<toLowerCase(StringOf(name))>> ELSE <<>>)
          \o refLoop(Tail(rs))

getReferences(c) ==
  LET references == Get(c, "references")
  IN IF IsArray(references) THEN refLoop(references.a) ELSE <<>>


BaseScore == 1
LexiconWeight == 3
NegativePenalty == 2
CweWeight == 2
RefWeight == 2
HighThreshold == 6
MediumThreshold == 4
RelatedThreshold == 2

Thrown == [kind |-> "throw"]
Verdict(related, reasons, confidence) ==
  [kind |-> "verdict", isDdosRelated |-> related, reasons |-> reasons, confidence |-> confidence]
Boolean(b) == [kind |-> "boolean", value |-> b]

GateFailedStrict == "CVSS gate failed (need AV: Network/Adjacent, A: High, C/I: Low)"
LexiconReason == "Amplification/reflection/spoofing lexicon found"
NegativeReasonStrict == "Negative indicators for generic/local DoS or non-DDoS web vulns"
CweReason(cwes) == "Strong DDoS CWE present: " \o join(cwes, ", ")
RefReason == "References indicate DDoS/amplification"

\* Variant of scoreOf: the negative signal added instead of subtracted.
scoreOfPenaltyAdded(bonus, lex, neg, cwe, ref) ==
  BaseScore + bonus
  + (IF lex THEN LexiconWeight ELSE 0)
  + (IF neg THEN NegativePenalty ELSE 0)
  + (IF cwe THEN CweWeight ELSE 0)
  + (IF ref THEN RefWeight ELSE 0)

\* Variant of scoreOf: the lexicon match counted against the record.
scoreOfLexiconSubtracted(bonus, lex, neg, cwe, ref) ==
  BaseScore + bonus
  - (IF lex THEN LexiconWeight ELSE 0)
  - (IF neg THEN NegativePenalty ELSE 0)
  + (IF cwe THEN CweWeight ELSE 0)
  + (IF ref THEN RefWeight ELSE 0)

\* Variant of scoreOf: a negative signal vetoes the record.
scoreOfNegativeVeto(bonus, lex, neg, cwe, ref) ==
  IF neg THEN 0
  ELSE BaseScore + bonus
       + (IF lex THEN LexiconWeight ELSE 0)
       + (IF cwe THEN CweWeight ELSE 0)
       + (IF ref THEN RefWeight ELSE 0)

\* score += 1 + gate.bonus; then the four evidence terms, each applied once
scoreOf(bonus, lex, neg, cwe, ref) ==
  BaseScore + bonus
  + (IF lex THEN LexiconWeight ELSE 0)
  - (IF neg THEN NegativePenalty ELSE 0)
  + (IF cwe THEN CweWeight ELSE 0)
  + (IF ref THEN RefWeight ELSE 0)

\* Variant of confidenceOf: the thresholds excluded.
confidenceOfAbove(s) ==
  IF s > HighThreshold THEN "HIGH"
  ELSE IF s > MediumThreshold THEN "MEDIUM"
  ELSE "LOW"

confidenceOf(s) ==
  IF s >= HighThreshold THEN "HIGH"
  ELSE IF s >= MediumThreshold THEN "MEDIUM"
  ELSE "LOW"

\* Variant of relatedOf: the rule of the tight detector.
relatedOfNotLow(s, confidence) == confidence # "LOW"

\* const isDdosRelated = score >= 2
relatedOf(s, confidence) == s >= RelatedThreshold

\* Variant of evidenceReasons: the CWE reason pushed before the description's.
evidenceReasonsCweFirst(lex, neg, negReason, cwe, cwes, ref) ==
  (IF cwe THEN <<CweReason(cwes)>> ELSE <<>>)
  \o (IF lex THEN <<LexiconReason>> ELSE <<>>)
  \o (IF neg THEN <<negReason>> ELSE <<>>)
  \o (IF ref THEN <<RefReason>> ELSE <<>>)

evidenceReasons(lex, neg, negReason, cwe, cwes, ref) ==
  (IF lex THEN <<LexiconReason>> ELSE <<>>)
  \o (IF neg THEN <<negReason>> ELSE <<>>)
  \o (IF cwe THEN <<CweReason(cwes)>> ELSE <<>>)
  \o (IF ref THEN <<RefReason>> ELSE <<>>)

\* Variant of analysisScore: the CWE weight added for every strong CWE listed.
analysisScorePerCwe(c) ==
  LET gate == metricsPassGate(extractNormCvss(c))
      desc == getEnglishDescription(c)
      cwes == getCweIds(c)
      strong == Cardinality({j \in 1..Len(cwes) : cwes[j] \in StrongDdosCwe})
  IN IF ~gate.passed THEN 0
     ELSE scoreOf(gate.bonus, hasAmplificationLexicon(desc), hasNegativeHints(desc),
                  FALSE, hasDdosRefHints(getReferences(c))) + strong * CweWeight

\* the value of the local `score` when getDdosAnalysisDetails returns
analysisScore(c) ==
  LET gate == metricsPassGate(extractNormCvss(c))
      desc == getEnglishDescription(c)
  IN IF ~gate.passed THEN 0
     ELSE scoreOf(gate.bonus, hasAmplificationLexicon(desc), hasNegativeHints(desc),
                  hasStrongDdosCwe(getCweIds(c)), hasDdosRefHints(getReferences(c)))

\* Variant of analysisVerdict: no return after a failed gate.
analysisVerdictNoReturn(c) ==
  LET gate == metricsPassGate(extractNormCvss(c))
      desc == getEnglishDescription(c)
      cwes == getCweIds(c)
      refs == getReferences(c)
      s == scoreOf(gate.bonus, hasAmplificationLexicon(desc), hasNegativeHints(desc),
                   hasStrongDdosCwe(cwes), hasDdosRefHints(refs))
  IN Verdict(gate.passed /\ s >= RelatedThreshold,
             (IF gate.passed THEN gate.reasons ELSE <<GateFailedStrict>>)
             \o evidenceReasons(hasAmplificationLexicon(desc),
                                hasNegativeHints(desc), NegativeReasonStrict,
                                hasStrongDdosCwe(cwes), cwes,
                                hasDdosRefHints(refs)),
             IF gate.passed THEN confidenceOf(s) ELSE "LOW")

analysisVerdict(c) ==
  LET gate == metricsPassGate(extractNormCvss(c))
      desc == getEnglishDescription(c)
      cwes == getCweIds(c)
      refs == getReferences(c)
      s == analysisScore(c)
  IN IF ~gate.passed THEN Verdict(FALSE, <<GateFailedStrict>>, "LOW")
     ELSE Verdict(relatedOf(s, confidenceOf(s)),
                  gate.reasons \o evidenceReasons(hasAmplificationLexicon(desc),
                                                  hasNegativeHints(desc), NegativeReasonStrict,
                                                  hasStrongDdosCwe(cwes), cwes,
                                                  hasDdosRefHints(refs)),
                  confidenceOf(s))

getDdosAnalysisDetails(c) ==
  IF allMetricEntriesThrows(c) THEN Thrown ELSE analysisVerdict(c)

detectDdosRelated(c) ==
  LET d == getDdosAnalysisDetails(c)
  IN IF d = Thrown THEN Thrown ELSE Boolean(d.isDdosRelated /\ d.confidence # "LOW")

---------------------------------------------------------------------------
(* The tight detector, src/src/test-status-values.ts 134-319. Its           *)
(* getEnglishDescription, getCweIds and getReferences (192-229) are the     *)
(* strict detector's, line for line; its weights and thresholds are the     *)
(* same numbers.                                                            *)

\* (a || b || '').toUpperCase() is a TypeError when the chosen value is no string
upperThrows(v) == ~IsString(v)
upperOf(v) == IF IsString(v) THEN toUpperCase(v.s) ELSE ""

tightAv(d) == OrElse(OrElse(Get(d, "attackVector"), Get(d, "accessVector")), Str(""))
tightAi(d) == OrElse(OrElse(OrElse(Get(d, "availabilityImpact"), Get(d, "va")), Get(d, "vi")), Str(""))
tightPr(d) == OrElse(OrElse(Get(d, "privilegesRequired"), Get(d, "pr")), Str(""))
tightUi(d) == OrElse(OrElse(Get(d, "userInteraction"), Get(d, "ui")), Str(""))
tightAc(d) ==
  OrElse(OrElse(OrElse(Get(d, "attackComplexity"), Get(d, "accessComplexity")), Get(d, "ac")), Str(""))

normOfTight(x) ==
  LET d == cvssDataOf(x)
  IN [av |-> upperOf(tightAv(d)), ai |-> upperOf(tightAi(d)), pr |-> upperOf(tightPr(d)),
      ui |-> upperOf(tightUi(d)), ac |-> upperOf(tightAc(d))]

normOfTightThrows(x) ==
  LET d == cvssDataOf(x)
  IN \/ upperThrows(tightAv(d)) \/ upperThrows(tightAi(d)) \/ upperThrows(tightPr(d))
     \/ upperThrows(tightUi(d)) \/ upperThrows(tightAc(d))

extractNormCvssTight(c) ==
  LET all == allMetricEntries(c)
  IN [j \in 1..Len(all) |-> normOfTight(all[j])]

extractNormCvssTightThrows(c) ==
  \/ allMetricEntriesThrows(c)
  \/ \E j \in 1..Len(allMetricEntries(c)) : normOfTightThrows(allMetricEntries(c)[j])

gateProfileTight(n) ==
  /\ n.av \in {"NETWORK", "ADJACENT"}
  /\ n.ai \in {"HIGH", "COMPLETE", "H"}

bonusNotesTight(n) ==
  (IF n.pr \in {"NONE", "N"} THEN <<"PR:N">> ELSE <<>>)
  \o (IF n.ui \in {"NONE", "N"} THEN <<"UI:N">> ELSE <<>>)
  \o (IF n.ac \in {"LOW", "L"} THEN <<"AC:L">> ELSE <<>>)

gateBonusTight(n) ==
  (IF n.pr \in {"NONE", "N"} THEN 1 ELSE 0)
  + (IF n.ui \in {"NONE", "N"} THEN 1 ELSE 0)
  + (IF n.ac \in {"LOW", "L"} THEN 1 ELSE 0)

gateHitTight(n) ==
  [passed |-> TRUE,
   bonus |-> gateBonusTight(n),
   reasons |-> <<"CVSS gate: AV=" \o n.av \o ", A=" \o n.ai>> \o bonusNotesTight(n)]

RECURSIVE gateLoopTight(_, _)
gateLoopTight(norms, j) ==
  IF j > Len(norms) THEN GateMiss
  ELSE IF gateProfileTight(norms[j]) THEN gateHitTight(norms[j])
  ELSE gateLoopTight(norms, j + 1)

metricsPassDdosGate(norms) == gateLoopTight(norms, 1)

AmplificationLexiconTight ==
  <<"amplification", "amplify", "reflect", "reflection", "reflected", "drdos",
    "spoof", "spoofed", "spoofing", "open resolver", "traffic amplification",
    "bandwidth exhaustion", "packet amplification", "attack amplification",
    "ntp", "monlist", "dns", "open dns resolver", "mdns", "ssdp", "ws-discovery",
    "cldap", "ldap", "snmp", "chargen", "qotd", "mssql", "memcached", "coap",
    "ripv1", "nbns", "ssdp", "sntp">>

checkAmplificationLexicon(text) ==
  text # "" /\ includesAny(text, AmplificationLexiconTight)

NegativeDoSIndicators ==
  <<"null pointer", "use-after-free", "out-of-bounds", "oob read", "oob write",
    "integer overflow", "race condition", "infinite loop", "resource exhaustion",
    "memory exhaustion", "cpu exhaustion", "hang", "crash", "kernel panic",
    "local user", "local attacker", "authenticated user", "privileged user">>

checkNegativeDoSIndicators(text) ==
  text # "" /\ includesAny(text, NegativeDoSIndicators)

checkDdosCweIdsTight(cweIds) == \E j \in 1..Len(cweIds) : cweIds[j] \in StrongDdosCwe

checkReferenceHints(refs) ==
  /\ Len(refs) # 0
  /\ \/ \E j \in 1..Len(refs) : includesAny(refs[j], RefTerms)
     \/ \E j \in 1..Len(refs) : includesAny(refs[j], RefVendors)

GateFailedTight == "CVSS gate failed (need AV:N/A and A:High)"
NegativeReasonTight == "Negative indicators for generic/local DoS"

\* return { isDdosRelated: confidence !== 'LOW', ... }
relatedOfTight(s, confidence) == confidence # "LOW"

analysisScoreTight(c) ==
  LET gate == metricsPassDdosGate(extractNormCvssTight(c))
      desc == getEnglishDescription(c)
  IN IF ~gate.passed THEN 0
     ELSE scoreOf(gate.bonus, checkAmplificationLexicon(desc), checkNegativeDoSIndicators(desc),
                  checkDdosCweIdsTight(getCweIds(c)), checkReferenceHints(getReferences(c)))

analysisVerdictTight(c) ==
  LET gate == metricsPassDdosGate(extractNormCvssTight(c))
      desc == getEnglishDescription(c)
      cwes == getCweIds(c)
      refs == getReferences(c)
      s == analysisScoreTight(c)
  IN IF ~gate.passed THEN Verdict(FALSE, <<GateFailedTight>>, "LOW")
     ELSE Verdict(relatedOfTight(s, confidenceOf(s)),
                  gate.reasons \o evidenceReasons(checkAmplificationLexicon(desc),
                                                  checkNegativeDoSIndicators(desc), NegativeReasonTight,
                                                  checkDdosCweIdsTight(cwes), cwes,
                                                  checkReferenceHints(refs)),
                  confidenceOf(s))

getDdosAnalysisDetailsTight(c) ==
  IF extractNormCvssTightThrows(c) THEN Thrown ELSE analysisVerdictTight(c)

detectDdosRelatedTight(c) ==
  LET d == getDdosAnalysisDetailsTight(c)
  IN IF d = Thrown THEN Thrown ELSE Boolean(d.isDdosRelated /\ d.confidence # "LOW")

---------------------------------------------------------------------------
(* The keyword detector, src/src/utils/ddosDetection.ts. Its                *)
(* getEnglishDescription, getCweIds and getReferences (46-91) are again     *)
(* the same code.                                                           *)

DdosKeywords ==
  <<"ddos", "distributed denial of service", "denial of service", "dos attack",
    "flood attack", "flooding", "amplification attack", "reflection attack",
    "volumetric attack", "protocol attack", "application layer attack",
    "syn flood", "udp flood", "icmp flood", "http flood", "slowloris",
    "ping of death", "smurf attack", "fraggle attack", "teardrop attack",
    "resource exhaustion", "memory exhaustion", "cpu exhaustion",
    "bandwidth consumption", "connection exhaustion",
    "service unavailable", "service disruption", "availability impact",
    "crash the service", "hang the system", "system unavailable",
    "ntp amplification", "dns amplification", "memcached amplification",
    "ssdp amplification", "chargen amplification",
    "botnet", "zombie network", "command and control", "c&c server">>

checkDdosKeywords(description) == includesAny(description, DdosKeywords)

DdosCweIds ==
  {"CWE-400", "CWE-770", "CWE-399", "CWE-769", "CWE-771", "CWE-772",
   "CWE-404", "CWE-405", "CWE-730",
   "CWE-20", "CWE-119", "CWE-190", "CWE-125", "CWE-787",
   "CWE-834", "CWE-835", "CWE-674",
   "CWE-406", "CWE-407", "CWE-410"}

checkDdosCweIds(cweIds) == \E j \in 1..Len(cweIds) : cweIds[j] \in DdosCweIds

DdosReferenceKeywords ==
  <<"ddos", "denial of service", "dos", "flood", "amplification",
    "botnet", "attack vector", "vulnerability disclosure", "exploit",
    "security advisory", "cve details">>

checkReferenceIndicators(refs) == \E j \in 1..Len(refs) : includesAny(refs[j], DdosReferenceKeywords)

LegacyVersionKeys == <<"cvssMetricV31", "cvssMetricV40", "cvssMetricV30", "cvssMetricV2">>

checkAttackVectorIndicatorsThrows(c) ==
  \E j \in 1..Len(LegacyVersionKeys) :
    SpreadThrows(OrElse(Get(metricsOf(c), LegacyVersionKeys[j]), EmptyArray))

checkAttackVectorIndicators(c) ==
  LET allMetrics == SpreadAll(metricsOf(c), LegacyVersionKeys)
  IN \E j \in 1..Len(allMetrics) :
       LET cvssData == Get(allMetrics[j], "cvssData")
       IN /\ Truthy(cvssData)
          /\ \/ Get(cvssData, "attackVector") = Str("NETWORK")
             \/ Get(cvssData, "accessVector") = Str("NETWORK")
          /\ \/ Get(cvssData, "availabilityImpact") = Str("HIGH")
             \/ Get(cvssData, "availabilityImpact") = Str("COMPLETE")

\* try { ... } catch (error) { return false; }
detectDdosRelatedLegacy(c) ==
  IF checkAttackVectorIndicatorsThrows(c) THEN Boolean(FALSE)
  ELSE Boolean(\/ checkDdosKeywords(getEnglishDescription(c))
               \/ checkDdosCweIds(getCweIds(c))
               \/ checkReferenceIndicators(getReferences(c))
               \/ checkAttackVectorIndicators(c))

legacyReasons(c) ==
  (IF checkDdosKeywords(getEnglishDescription(c))
     THEN <<"DDoS-related keywords found in description">> ELSE <<>>)
  \o (IF checkDdosCweIds(getCweIds(c))
        THEN <<"DDoS-related CWE IDs found: " \o join(getCweIds(c), ", ")>> ELSE <<>>)
  \o (IF checkReferenceIndicators(getReferences(c))
        THEN <<"DDoS indicators found in references">> ELSE <<>>)
  \o (IF checkAttackVectorIndicators(c)
        THEN <<"Network attack vector with high availability impact">> ELSE <<>>)

legacyConfidence(c) ==
  IF checkDdosKeywords(getEnglishDescription(c)) THEN "HIGH"
  ELSE IF \/ checkDdosCweIds(getCweIds(c))
          \/ checkReferenceIndicators(getReferences(c))
          \/ checkAttackVectorIndicators(c) THEN "MEDIUM"
  ELSE "LOW"

getDdosAnalysisDetailsLegacy(c) ==
  IF checkAttackVectorIndicatorsThrows(c)
    THEN Verdict(FALSE, <<"Analysis failed: TypeError: object is not iterable">>, "LOW")
    ELSE Verdict(Len(legacyReasons(c)) > 0, legacyReasons(c), legacyConfidence(c))

---------------------------------------------------------------------------
(* The records the classifiers are applied to.                              *)

MaxEntries == 2   \* metric entries of a record spread over several version lists
MaxCwe == 2       \* CWE identifiers of a record

SeqsUpTo(S, n) == UNION {[1..k -> S] : k \in 0..n}

Entry(data) == Obj([cvssData |-> data])

V3Data(av, a, c, i, pr, ui, ac) ==
  Obj([attackVector |-> Str(av), attackComplexity |-> Str(ac), privilegesRequired |-> Str(pr),
       userInteraction |-> Str(ui), confidentialityImpact |-> Str(c),
       integrityImpact |-> Str(i), availabilityImpact |-> Str(a)])

V2Data(av, a, c, i, ac) ==
  Obj([accessVector |-> Str(av), accessComplexity |-> Str(ac), confidentialityImpact |-> Str(c),
       integrityImpact |-> Str(i), availabilityImpact |-> Str(a)])

\* one entry in the list of one version
OneMetric(key, data) == Obj([k \in {key} |-> Arr(<<Entry(data)>>)])

V3Records ==
  {OneMetric("cvssMetricV31", V3Data(av, a, ci[1], ci[2], pr, ui, ac)) :
     av \in {"NETWORK", "ADJACENT", "LOCAL"}, a \in {"HIGH", "LOW"},
     ci \in {<<"NONE", "NONE">>, <<"HIGH", "NONE">>, <<"LOW", "HIGH">>},
     pr \in {"NONE", "LOW"}, ui \in {"NONE", "REQUIRED"}, ac \in {"LOW", "HIGH"}}

V2Records ==
  {OneMetric("cvssMetricV2", V2Data(av, a, ci[1], ci[2], ac)) :
     av \in {"NETWORK", "LOCAL"}, a \in {"COMPLETE", "PARTIAL"},
     ci \in {<<"NONE", "NONE">>, <<"PARTIAL", "PARTIAL">>, <<"COMPLETE", "NONE">>},
     ac \in {"LOW", "MEDIUM"}}

\* letter case, the abbreviated keys of v4.0, and entries that miss data
OddRecords ==
  {OneMetric("cvssMetricV30", V3Data("network", "High", "none", "None", "none", "None", "low")),
   OneMetric("cvssMetricV31", V3Data("Adjacent", "high", "HIGH", "none", "NONE", "NONE", "LOW")),
   OneMetric("cvssMetricV40", Obj([attackVector |-> Str("NETWORK"), ac |-> Str("L"), pr |-> Str("N"),
                                   ui |-> Str("N"), vc |-> Str("N"), vi |-> Str("N"), va |-> Str("H")])),
   OneMetric("cvssMetricV40", Obj([attackVector |-> Str("NETWORK"), ac |-> Str("L"), pr |-> Str("N"),
                                   ui |-> Str("N"), vc |-> Str("N"), vi |-> Str("H")])),
   OneMetric("cvssMetricV40", Obj([attackVector |-> Str("NETWORK"), vc |-> Str("H"), vi |-> Str("H"),
                                   va |-> Str("H")])),
   OneMetric("cvssMetricV40", Obj([av |-> Str("N"), va |-> Str("H")])),
   OneMetric("cvssMetricV31", Obj([attackVector |-> Str("NETWORK")])),
   OneMetric("cvssMetricV31", Obj([availabilityImpact |-> Str("HIGH")])),
   OneMetric("cvssMetricV31", Obj([attackVector |-> Str("NETWORK"), availabilityImpact |-> Str("CRITICAL")])),
   OneMetric("cvssMetricV31", Obj([attackVector |-> Str("NETWORK"), availabilityImpact |-> Str("HIGH"),
                                   confidentialityImpact |-> Str("CRITICAL")])),
   Obj([cvssMetricV31 |-> Arr(<<Obj([type |-> Str("Primary")])>>)]),
   Obj([cvssMetricV31 |-> EmptyArray]),
   EmptyObject,
   Undefined}

\* sub-fields of an unexpected type
WrongTypeRecords ==
  {Null, Num(7), Str("NETWORK"), Bool(TRUE),
   Obj([cvssMetricV31 |-> Entry(V3Data("NETWORK", "HIGH", "NONE", "NONE", "NONE", "NONE", "LOW"))]),
   Obj([cvssMetricV2 |-> Num(3)]),
   Obj([cvssMetricV40 |-> Str("AV:N")]),
   Obj([cvssMetricV30 |-> Null]),
   Obj([cvssMetricV31 |-> Arr(<<Null>>)]),
   Obj([cvssMetricV31 |-> Arr(<<Str("x"), Num(1)>>)]),
   Obj([cvssMetricV31 |-> Arr(<<Obj([cvssData |-> Str("CVSS:3.1/AV:N")])>>)]),
   OneMetric("cvssMetricV31", Obj([attackVector |-> Num(1), availabilityImpact |-> Str("HIGH")])),
   OneMetric("cvssMetricV31", Obj([attackVector |-> Str("NETWORK"), availabilityImpact |-> Bool(TRUE)])),
   OneMetric("cvssMetricV31", Obj([attackVector |-> Str("NETWORK"), availabilityImpact |-> Str("HIGH"),
                                   confidentialityImpact |-> Num(5), privilegesRequired |-> Null])),
   OneMetric("cvssMetricV31", Obj([attackVector |-> Arr(<<Str("network")>>),
                                   availabilityImpact |-> Arr(<<Str("high")>>)]))}

\* the entries that are spread over the four version lists
CoreData ==
  {V3Data("NETWORK", "HIGH", "NONE", "NONE", "NONE", "NONE", "LOW"),
   V3Data("ADJACENT", "HIGH", "LOW", "NONE", "HIGH", "REQUIRED", "HIGH"),
   V3Data("NETWORK", "HIGH", "HIGH", "HIGH", "NONE", "REQUIRED", "HIGH"),
   V3Data("LOCAL", "HIGH", "NONE", "NONE", "NONE", "NONE", "LOW")}

ListOf(tagged, key) ==
  LET mine == SelectSeq(tagged, LAMBDA e : e[1] = key)
  IN IF Len(mine) = 0 THEN Undefined ELSE Arr([j \in 1..Len(mine) |-> Entry(mine[j][2])])

SpreadRecords ==
  {Obj([k \in {VersionKeys[j] : j \in 1..Len(VersionKeys)} |-> ListOf(tagged, k)]) :
     tagged \in SeqsUpTo({VersionKeys[j] : j \in 1..Len(VersionKeys)} \X CoreData, MaxEntries)}

CoreMetrics ==
  {OneMetric("cvssMetricV31", V3Data("NETWORK", "HIGH", "NONE", "NONE", "NONE", "NONE", "LOW")),
   OneMetric("cvssMetricV31", V3Data("NETWORK", "HIGH", "LOW", "NONE", "LOW", "REQUIRED", "HIGH")),
   OneMetric("cvssMetricV2", V2Data("NETWORK", "COMPLETE", "NONE", "NONE", "LOW")),
   OneMetric("cvssMetricV31", V3Data("LOCAL", "HIGH", "NONE", "NONE", "NONE", "NONE", "LOW"))}

TypedEntry(type, data) == Obj([type |-> Str(type), cvssData |-> data])

NetworkData == V3Data("NETWORK", "HIGH", "NONE", "NONE", "NONE", "NONE", "LOW")
LocalData == V3Data("LOCAL", "HIGH", "NONE", "NONE", "LOW", "REQUIRED", "HIGH")

\* lists whose entries carry a type, Primary or Secondary
TypedMetrics ==
  {Obj([cvssMetricV31 |-> Arr(<<TypedEntry("Primary", LocalData), TypedEntry("Secondary", NetworkData)>>)]),
   Obj([cvssMetricV40 |-> Arr(<<TypedEntry("Primary", LocalData)>>),
        cvssMetricV31 |-> Arr(<<TypedEntry("Primary", LocalData), TypedEntry("Secondary", NetworkData)>>)]),
   Obj([cvssMetricV31 |-> Arr(<<TypedEntry("Secondary", NetworkData), TypedEntry("Primary", LocalData)>>)]),
   Obj([cvssMetricV30 |-> Arr(<<TypedEntry("Secondary", LocalData), Entry(NetworkData)>>)]),
   Obj([cvssMetricV31 |-> Arr(<<TypedEntry("Primary", LocalData)>>),
        cvssMetricV2 |-> Arr(<<Entry(V2Data("LOCAL", "COMPLETE", "NONE", "NONE", "LOW")),
                               TypedEntry("Primary", V2Data("NETWORK", "COMPLETE", "NONE", "NONE", "LOW"))>>)])}

SingleMetrics ==
  V3Records \cup V2Records \cup OddRecords \cup WrongTypeRecords \cup CoreMetrics \cup TypedMetrics

Description(lang, text) == Obj([lang |-> Str(lang), value |-> Str(text)])

LexiconText == "NTP amplification attack"
NegativeText == "SQL injection causing denial of service"
MixedText == "remote crash via spoofed packets"
PlainText == "buffer overflow in the parser"

CoreDescriptions ==
  {Arr(<<Description("en", t)>>) : t \in {LexiconText, NegativeText, MixedText, PlainText}}

AllDescriptions ==
  CoreDescriptions \cup
  {Undefined, Null, EmptyArray, Str(LexiconText), Num(4),
   Arr(<<Description("en", "")>>),
   Arr(<<Description("en", "reflection attack using open DNS resolver")>>),
   Arr(<<Description("en", "allows a local user to change settings")>>),
   Arr(<<Description("en", "distributed denial of service by flooding")>>),
   Arr(<<Description("en", "injection of forged NTP packets")>>),
   Arr(<<Description("es", PlainText), Description("en", LexiconText)>>),
   Arr(<<Description("es", LexiconText), Description("en", PlainText)>>),
   Arr(<<Description("es", LexiconText), Description("en", "")>>),
   Arr(<<Description("es", LexiconText), Description("fr", NegativeText)>>),
   Arr(<<Description("EN", LexiconText)>>),
   Arr(<<Null, Description("en", MixedText)>>),
   Arr(<<Str(LexiconText)>>),
   Arr(<<Obj([lang |-> Str("en"), value |-> Num(405)])>>),
   Arr(<<Obj([lang |-> Str("en"), value |-> Arr(<<Str("DNS"), Str("crash")>>)])>>),
   Arr(<<Obj([lang |-> Str("en")])>>)}

CweAlphabet == {"CWE-405", "CWE-770", "CWE-79"}

Weakness(id) == Obj([type |-> Str("Primary"), description |-> Arr(<<Description("en", id)>>)])

WeaknessList(ids) == Arr([j \in 1..Len(ids) |-> Weakness(ids[j])])

CoreWeaknesses == {Undefined, WeaknessList(<<"CWE-406">>)}

AllWeaknesses ==
  CoreWeaknesses \cup
  {WeaknessList(ids) : ids \in SeqsUpTo(CweAlphabet, MaxCwe)} \cup
  {Null, Num(405), Str("CWE-405"),
   Arr(<<Obj([description |-> Arr(<<Description("en", "CWE-79"), Description("en", "CWE-770")>>)])>>),
   Arr(<<Null, Str("CWE-405"), Obj([description |-> Str("CWE-405")])>>),
   Arr(<<Obj([description |-> Arr(<<Null, Obj([value |-> Num(405)]), Obj([value |-> Str("")])>>)])>>),
   WeaknessList(<<"cwe-405">>),
   WeaknessList(<<"NVD-CWE-noinfo">>)}

Reference(url, name) == Obj([url |-> url, name |-> name])

CoreReferences ==
  {Undefined, Arr(<<Reference(Str("https://blog.cloudflare.com/memcrashed"), Undefined)>>)}

AllReferences ==
  CoreReferences \cup
  {Null, EmptyArray, Num(1), Str("https://blog.cloudflare.com"),
   Arr(<<Reference(Str("https://example.com/advisory/42"), Str("Vendor Advisory"))>>),
   Arr(<<Reference(Str("https://example.com/advisory/42"), Str("DRDoS Report"))>>),
   Arr(<<Reference(Undefined, Str("Booter services"))>>),
   Arr(<<Reference(Str("https://www.CISA.gov/alerts"), Undefined)>>),
   Arr(<<Reference(Str("https://example.com/denial-of-service"), Undefined)>>),
   Arr(<<Null, Reference(Num(7), Bool(TRUE)), Str("ddos")>>),
   Arr(<<Reference(Arr(<<Str("https://akamai.com")>>), Undefined)>>),
   Arr(<<Reference(Str("https://example.com"), Undefined),
         Reference(Str("https://example.org/exploit"), Str("Stresser"))>>)}

Record(m, d, w, r) ==
  Obj([id |-> Str("CVE-2023-1234"), metrics |-> m, descriptions |-> d, weaknesses |-> w,
       references |-> r])

\* values that are no record at all
NotRecords == {Null, Undefined, Str("CVE-2023-1234"), Num(20231234)}

Records ==
  {Record(m, d, w, r) : m \in SingleMetrics, d \in CoreDescriptions, w \in CoreWeaknesses,
                        r \in CoreReferences}
  \cup {Record(m, Arr(<<Description("en", t)>>), Undefined, r) :
          m \in SpreadRecords, t \in {LexiconText, PlainText}, r \in CoreReferences}
  \cup {Record(m, d, w, r) : m \in CoreMetrics, d \in AllDescriptions, w \in CoreWeaknesses,
                             r \in CoreReferences}
  \cup {Record(m, d, w, r) : m \in CoreMetrics, d \in CoreDescriptions, w \in AllWeaknesses,
                             r \in CoreReferences}
  \cup {Record(m, d, w, r) : m \in CoreMetrics, d \in CoreDescriptions, w \in CoreWeaknesses,
                             r \in AllReferences}
  \cup {EmptyObject}

Inputs == Records \cup NotRecords

---------------------------------------------------------------------------
(* The table-entry converter, src/unnamed/part_005, and the rows that      *)
(* CveSqliteManager.processBatch binds, src/unnamed/part_006.              *)

\* the metricVersion column of each list, in the order the converter reads
\* the lists
TableVersions ==
  <<[key |-> "cvssMetricV31", metricVersion |-> "3.1"],
    [key |-> "cvssMetricV40", metricVersion |-> "4.0"],
    [key |-> "cvssMetricV30", metricVersion |-> "3.0"],
    [key |-> "cvssMetricV2", metricVersion |-> "2.0"]>>

\* a number stays, anything else becomes the sentinel -1
asNumberOrMinusOne(value) == IF value.t = "number" THEN value.n ELSE 0 - 1

\* mapV40, mapV31, mapV30 and mapV20: the v2 entry carries baseSeverity itself
\* and names the vector and the complexity accessVector and accessComplexity
mapMetric(version, m) ==
  LET d == OrElse(Get(m, "cvssData"), EmptyObject)
      v2 == version = "2.0"
  IN [metricVersion |-> version,
      source |-> Coalesce(Get(m, "source"), Str("")),
      baseScore |-> asNumberOrMinusOne(Get(d, "baseScore")),
      vectorString |-> Coalesce(Get(d, "vectorString"), Str("")),
      baseSeverity |-> Coalesce(Get(IF v2 THEN m ELSE d, "baseSeverity"), Str("")),
      attackVector |-> Coalesce(Get(d, IF v2 THEN "accessVector" ELSE "attackVector"), Str("")),
      attackComplexity |->
        Coalesce(Get(d, IF v2 THEN "accessComplexity" ELSE "attackComplexity"), Str("")),
      exploitabilityScore |-> asNumberOrMinusOne(Get(m, "exploitabilityScore")),
      impactScore |-> asNumberOrMinusOne(Get(m, "impactScore"))]

\* the first occurrence of each id, in order
RECURSIVE uniq(_)
uniq(ids) ==
  IF Len(ids) = 0 THEN <<>>
  ELSE LET init == uniq(SubSeq(ids, 1, Len(ids) - 1))
           last == ids[Len(ids)]
       IN IF \E j \in 1..Len(init) : init[j] = last THEN init ELSE Append(init, last)

getCweIdsTable(c) == uniq(getCweIds(c))

buildTableEntryBase(c) ==
  [id |-> Coalesce(Get(c, "id"), Coalesce(Get(c, "cveId"), Str(""))),
   sourceIdentifier |-> Coalesce(Get(c, "sourceIdentifier"), Str("")),
   published |-> Coalesce(Get(c, "published"), Str("")),
   lastModified |-> Coalesce(Get(c, "lastModified"), Str("")),
   vulnStatus |-> Coalesce(Get(c, "vulnStatus"), Str("")),
   description |-> getEnglishDescriptionTable(c),
   cweIds |-> getCweIdsTable(c),
   isDdosRelated |-> FALSE]

\* { ...base, metricVersion: m.metricVersion, ... }
toTableEntry(base, m) ==
  [k \in DOMAIN base \cup DOMAIN m |-> IF k \in DOMAIN m THEN m[k] ELSE base[k]]

\* one entry per version whose list is a non-empty array with a truthy pick
RECURSIVE extractLoop(_, _, _)
extractLoop(base, metrics, versions) ==
  IF Len(versions) = 0 THEN <<>>
  ELSE LET list == Get(metrics, versions[1].key)
           picked == pickByTypePriority(list)
       IN (IF IsArray(list) /\ Len(list.a) > 0 /\ Truthy(picked)
             THEN <<toTableEntry(base, mapMetric(versions[1].metricVersion, picked))>>
             ELSE <<>>)
          \o extractLoop(base, metrics, Tail(versions))

extractTableEntriesFromJson(c) ==
  extractLoop(buildTableEntryBase(c), metricsOf(c), TableVersions)

\* JSON.stringify of an array of strings that need no escaping
stringify(ids) == "[" \o join([j \in 1..Len(ids) |-> "\"" \o ids[j] \o "\""], ",") \o "]"

\* the values processBatch binds to the statement: a score of -1 and an
\* empty cweIds go in as NULL, isDdosRelated as 1 or 0
rowOf(entry) ==
  LET scoreOrNull(n) == IF n # 0 - 1 THEN Num(n) ELSE Null
  IN [id |-> entry.id,
      sourceIdentifier |-> entry.sourceIdentifier,
      published |-> entry.published,
      lastModified |-> entry.lastModified,
      vulnStatus |-> entry.vulnStatus,
      description |-> entry.description,
      metricVersion |-> entry.metricVersion,
      source |-> entry.source,
      baseScore |-> scoreOrNull(entry.baseScore),
      vectorString |-> entry.vectorString,
      baseSeverity |-> entry.baseSeverity,
      attackVector |-> entry.attackVector,
      attackComplexity |-> entry.attackComplexity,
      exploitabilityScore |-> scoreOrNull(entry.exploitabilityScore),
      impactScore |-> scoreOrNull(entry.impactScore),
      cweIds |-> IF Len(entry.cweIds) > 0 THEN Str(stringify(entry.cweIds)) ELSE Null,
      isDdosRelated |-> IF entry.isDdosRelated THEN 1 ELSE 0]

\* the table is keyed by (id, metricVersion): INSERT OR REPLACE overwrites the
\* row of a key, INSERT OR IGNORE keeps it
keyOf(row) == <<row.id, row.metricVersion>>

\* id TEXT NOT NULL: a row without an id is refused. INSERT OR REPLACE then
\* fails, the statement undone and the transaction left open; INSERT OR IGNORE
\* skips the row without an error.
violatesNotNull(row) == Nullish(row.id)

\* Variant of insertRow: the table without its primary key, every row added.
insertRowUnkeyed(rows, row, saveMode) ==
  IF violatesNotNull(row) THEN rows ELSE Append(rows, row)

\* Variant of insertRow: INSERT OR IGNORE in either mode, the row of a key
\* that is present kept.
insertRowIgnoring(rows, row, saveMode) ==
  IF violatesNotNull(row) \/ \E j \in 1..Len(rows) : keyOf(rows[j]) = keyOf(row)
    THEN rows
    ELSE Append(rows, row)

insertRow(rows, row, saveMode) ==
  IF violatesNotNull(row) THEN rows
  ELSE IF \E j \in 1..Len(rows) : keyOf(rows[j]) = keyOf(row)
    THEN IF saveMode = "upsert"
           THEN Append(SelectSeq(rows, LAMBDA r : keyOf(r) # keyOf(row)), row)
           ELSE rows
    ELSE Append(rows, row)

RECURSIVE processBatch(_, _, _)
processBatch(rows, entries, saveMode) ==
  IF Len(entries) = 0 THEN rows
  ELSE processBatch(insertRow(rows, rowOf(entries[1]), saveMode), Tail(entries), saveMode)

\* processBatch rejects when the callback of a stmt.run reports an error; the
\* statements after it, finalize and COMMIT are issued all the same
processBatchRejects(entries, saveMode) ==
  saveMode = "upsert" /\ \E j \in 1..Len(entries) : violatesNotNull(rowOf(entries[j]))

\* the table after the batches, and whether a batch rejected. A rejecting
\* batch ends the loop while its COMMIT is still to be issued, and the caller
\* goes on to close the connection: the rows of that batch are committed when
\* the COMMIT gets through first (commits), and lost with the open transaction
\* when the close does.
RECURSIVE processEntriesInBatches(_, _, _, _, _, _)
processEntriesInBatches(rows, entries, batchSize, saveMode, commits, i) ==
  IF i * batchSize >= Len(entries) THEN [rows |-> rows, rejected |-> FALSE]
  ELSE LET batch == SubSeq(entries, i * batchSize + 1,
                           Min({(i + 1) * batchSize, Len(entries)}))
       IN IF processBatchRejects(batch, saveMode)
            THEN [rows |-> IF commits THEN processBatch(rows, batch, saveMode) ELSE rows,
                  rejected |-> TRUE]
            ELSE processEntriesInBatches(processBatch(rows, batch, saveMode), entries,
                                         batchSize, saveMode, commits, i + 1)

\* JSON.parse of the text stringify writes: the strings between the quotes,
\* in order; at i, with the string that began at position open (0: none)
RECURSIVE parseFrom(_, _, _, _)
parseFrom(text, i, open, ids) ==
  IF i > Len(text) THEN ids
  ELSE IF SubSeq(text, i, i) = "\""
    THEN IF open = 0 THEN parseFrom(text, i + 1, i + 1, ids)
         ELSE parseFrom(text, i + 1, 0, Append(ids, SubSeq(text, open, i - 1)))
  ELSE parseFrom(text, i + 1, open, ids)

\* rows.map(row => ({ ... })) of queryEntries: a score column read with
\* `|| -1`, cweIds parsed, isDdosRelated as a boolean
entryOfRow(row) ==
  [k \in DOMAIN row |->
     CASE k \in {"baseScore", "exploitabilityScore", "impactScore"} ->
            IF Truthy(row[k]) THEN row[k].n ELSE 0 - 1
       [] k = "cweIds" -> IF Truthy(row[k]) THEN parseFrom(row[k].s, 1, 0, <<>>) ELSE <<>>
       [] k = "isDdosRelated" -> row[k] # 0
       [] OTHER -> row[k]]

\* SELECT * FROM cve_entries WHERE ... for the options id and metricVersion;
\* the rows all carry the same published, so ORDER BY leaves them as stored,
\* and there are fewer than the default limit of 100
queryEntries(rows, options) ==
  LET hit(row) == /\ Truthy(options.id) => row.id = options.id
                  /\ Truthy(options.metricVersion) =>
                       Str(row.metricVersion) = options.metricVersion
      hits == SelectSeq(rows, hit)
  IN [j \in 1..Len(hits) |-> entryOfRow(hits[j])]

\* a manager: this.db (0 for null, else the connection it refers to), the
\* number of connections it has opened, numbered from 1, and those closed
NewManager == [db |-> 0, opened |-> 0, closed |-> {}]

\* this.db = new sqlite3.Database(this.dbPath, ...): whatever this.db referred
\* to is overwritten
openDatabase(m) == [m EXCEPT !.db = m.opened + 1, !.opened = m.opened + 1]

\* this.db.close(), then this.db = null; nothing when this.db is null
closeDatabase(m) == IF m.db # 0 THEN [m EXCEPT !.closed = @ \cup {m.db}, !.db = 0] ELSE m

\* the database file: absent, or present with the table created
NoFile == [exists |-> FALSE, table |-> FALSE, backups |-> <<>>]
FileWithTable == [exists |-> TRUE, table |-> TRUE, backups |-> <<>>]

\* Variant of createBackup: no copy is made.
createBackupSkipped(f, rows, copyFails) == f

\* fs.copyFileSync(this.dbPath, backupPath); a failure is caught and logged
createBackup(f, rows, copyFails) ==
  IF copyFails THEN f ELSE [f EXCEPT !.backups = Append(@, rows)]

---------------------------------------------------------------------------
(* The state machine: a caller holds one value and applies entry points   *)
(* to it, one call at a time. The classifiers keep no state between calls. *)

NoResult == [kind |-> "none"]

\* The record after a call: no entry point assigns to its argument or to
\* anything reachable from it, and none keeps a module-level variable.
argumentAfterDescriptionsTaken(c) ==
  IF c.t = "object" /\ "descriptions" \in DOMAIN c.o
    THEN Obj([c.o EXCEPT !["descriptions"] = EmptyArray])
    ELSE c

argumentAfter(c) == c

Init ==
  /\ cve \in Inputs
  /\ call = "none"
  /\ out = NoResult
  /\ score = 0
  /\ history = <<>>
  /\ left = 1
  /\ cve_entries = <<>>
  /\ manager = NewManager
  /\ files = NoFile

\* one call: the entry point's name, what it returns or throws, and the score
\* it computed on the way
Invoke(name, result, localScore) ==
  /\ left > 0
  /\ left' = left - 1
  /\ call' = name
  /\ out' = result
  /\ score' = localScore
  /\ history' = Append(history, [call |-> name, out |-> result])
  /\ cve' = argumentAfter(cve)
  /\ UNCHANGED <<cve_entries, manager, files>>

CallStrictDetails ==
  Invoke("getDdosAnalysisDetails", getDdosAnalysisDetails(cve),
         IF allMetricEntriesThrows(cve) THEN 0 ELSE analysisScore(cve))

CallStrictDetect ==
  Invoke("detectDdosRelated", detectDdosRelated(cve),
         IF allMetricEntriesThrows(cve) THEN 0 ELSE analysisScore(cve))

CallTightDetails ==
  Invoke("getDdosAnalysisDetailsTight", getDdosAnalysisDetailsTight(cve),
         IF extractNormCvssTightThrows(cve) THEN 0 ELSE analysisScoreTight(cve))

CallTightDetect ==
  Invoke("detectDdosRelatedTight", detectDdosRelatedTight(cve),
         IF extractNormCvssTightThrows(cve) THEN 0 ELSE analysisScoreTight(cve))

CallLegacyDetails ==
  Invoke("getDdosAnalysisDetailsLegacy", getDdosAnalysisDetailsLegacy(cve), 0)

CallLegacyDetect ==
  Invoke("detectDdosRelatedLegacy", detectDdosRelatedLegacy(cve), 0)

Next ==
  \/ CallStrictDetails
  \/ CallStrictDetect
  \/ CallTightDetails
  \/ CallTightDetect
  \/ CallLegacyDetails
  \/ CallLegacyDetect

Spec == Init /\ [][Next]_vars

---------------------------------------------------------------------------
(* A caller that applies entry points to the same record again and again. *)

MaxCalls == 3   \* calls made on one record

RepeatedInputs ==
  {Record(m, d, w, r) : m \in CoreMetrics, d \in CoreDescriptions, w \in CoreWeaknesses,
                        r \in CoreReferences}

InitRepeated ==
  /\ cve \in RepeatedInputs
  /\ call = "none"
  /\ out = NoResult
  /\ score = 0
  /\ history = <<>>
  /\ left = MaxCalls
  /\ cve_entries = <<>>
  /\ manager = NewManager
  /\ files = NoFile

SpecRepeated == InitRepeated /\ [][Next]_vars

---------------------------------------------------------------------------
(* The import: a record is converted to table entries, and the entries are *)
(* saved to the cve_entries table.                                         *)

\* rows a table holds before the import: none, or one of an earlier import
\* of the same CVE that was stored as DDoS-related
EarlierRow ==
  [rowOf(toTableEntry(buildTableEntryBase(Record(Undefined, Undefined, Undefined, Undefined)),
                      mapMetric("3.1", EmptyObject)))
     EXCEPT !.isDdosRelated = 1]

InitImport ==
  /\ cve \in Records
  /\ call = "none"
  /\ out = NoResult
  /\ score = 0
  /\ history = <<>>
  /\ left = 2
  /\ cve_entries \in {<<>>, <<EarlierRow>>}
  /\ manager = NewManager
  /\ files = IF cve_entries = <<>> THEN NoFile ELSE FileWithTable

CallExtract ==
  /\ call = "none"
  /\ Invoke("extractTableEntriesFromJson",
            [kind |-> "entries", entries |-> extractTableEntriesFromJson(cve)], 0)

\* saveToSqlite(entries, options): the backup when the file exists, the
\* connection opened (which creates the file), the table created when missing,
\* the batches, and in the finally block the connection closed. The caller
\* gets a rejection when a batch rejected.
SaveToSqlite(entries, options) ==
  /\ left > 0
  /\ left' = left - 1
  /\ \E copyFails \in IF options.createBackup /\ files.exists THEN BOOLEAN ELSE {FALSE},
        commits \in IF options.saveMode = "upsert" THEN BOOLEAN ELSE {TRUE} :
       LET backedUp == IF options.createBackup /\ files.exists
                         THEN createBackup(files, cve_entries, copyFails)
                         ELSE files
           done == processEntriesInBatches(cve_entries, entries, options.batchSize,
                                           options.saveMode, commits, 0)
       IN /\ files' = [backedUp EXCEPT !.exists = TRUE, !.table = TRUE]
          /\ cve_entries' = done.rows
          /\ out' = [kind |-> IF done.rejected THEN "rejected" ELSE "saved",
                     entries |-> entries,
                     saveMode |-> options.saveMode,
                     batchSize |-> options.batchSize,
                     createBackup |-> options.createBackup,
                     existed |-> files.exists,
                     copyFailed |-> copyFails,
                     before |-> cve_entries]
  /\ manager' = closeDatabase(openDatabase(manager))
  /\ call' = "saveToSqlite"
  /\ UNCHANGED <<cve, score>>

\* the options the import scripts pass, with either save mode
ImportOptions ==
  {[createBackup |-> TRUE, batchSize |-> 1000, saveMode |-> m] : m \in {"upsert", "insertOnly"}}

CallSaveToSqlite ==
  /\ call = "extractTableEntriesFromJson"
  /\ \E options \in ImportOptions : SaveToSqlite(out.entries, options)
  /\ history' = Append(history, [call |-> "saveToSqlite", out |-> out'])

NextImport ==
  \/ CallExtract
  \/ CallSaveToSqlite

SpecImport == InitImport /\ [][NextImport]_vars

---------------------------------------------------------------------------
(* The selection of one version's representative entry, applied to a list  *)
(* on its own.                                                             *)

MaxPick == 2   \* entries of a list handed to pickByTypePriority

\* what an entry of a list may be: typed in any letter case, typed otherwise,
\* untyped, or null
EntryKinds ==
  {Str("Primary"), Str("PRIMARY"), Str("primary"), Str("Secondary"), Str("secondary"),
   Str("Tertiary"), Num(1), Undefined, Null}

\* the entry of kind k at position j; source tells equal entries apart
KindEntry(k, j) ==
  IF k = Null THEN Null
  ELSE IF k = Undefined THEN Obj([source |-> Num(j)])
  ELSE Obj([type |-> k, source |-> Num(j)])

PickLists ==
  {Arr([j \in DOMAIN kinds |-> KindEntry(kinds[j], j)]) :
     kinds \in UNION {[1..n -> EntryKinds] : n \in 0..MaxPick}}

PickInputs ==
  PickLists \cup {Undefined, Null, Str("Primary"), Obj([type |-> Str("Primary")])}

InitPick ==
  /\ cve \in PickInputs
  /\ call = "none"
  /\ out = NoResult
  /\ score = 0
  /\ history = <<>>
  /\ left = 1
  /\ cve_entries = <<>>
  /\ manager = NewManager
  /\ files = NoFile

CallPickByTypePriority ==
  Invoke("pickByTypePriority", [kind |-> "picked", value |-> pickByTypePriority(cve)], 0)

NextPick == CallPickByTypePriority

SpecPick == InitPick /\ [][NextPick]_vars

---------------------------------------------------------------------------
(* A CveSqliteManager at work: entries saved, queried, the manager closed. *)

MaxOps == 3   \* calls made on one manager

\* a table entry as the converter builds it
StoreEntry(id, metricVersion, scores, vulnStatus, cwes) ==
  toTableEntry(
    buildTableEntryBase(Obj([id |-> id, vulnStatus |-> Str(vulnStatus),
                             weaknesses |-> WeaknessList(cwes)])),
    mapMetric(metricVersion,
              IF Len(scores) = 0 THEN EmptyObject
              ELSE Obj([cvssData |-> Obj([baseScore |-> Num(scores[1])]),
                        exploitabilityScore |-> Num(scores[2]),
                        impactScore |-> Num(scores[3])])))

Scored == StoreEntry(Str("CVE-2023-1234"), "3.1", <<7, 4, 6>>, "Analyzed", <<"CWE-400">>)
Rescored == StoreEntry(Str("CVE-2023-1234"), "3.1", <<0, 0, 0>>, "Modified", <<>>)
Unscored == StoreEntry(Str("CVE-2023-1234"), "2.0", <<>>, "Analyzed", <<"CWE-400", "CWE-20">>)
Other == StoreEntry(Str("CVE-2024-0001"), "3.1", <<10, 10, 10>>, "Rejected", <<>>)
\* an entry whose id is null: the NOT NULL constraint refuses its row
Refused == [Other EXCEPT !.id = Null]

EntryLists ==
  {<<>>, <<Scored>>, <<Rescored>>, <<Scored, Unscored>>, <<Scored, Rescored>>,
   <<Other, Scored>>, <<Refused, Other>>, <<Other, Refused>>, <<Scored, Refused, Other>>}

SaveOptions ==
  [createBackup : BOOLEAN, batchSize : {1, 2}, saveMode : {"upsert", "insertOnly"}]

QueryOptions ==
  {[id |-> Undefined, metricVersion |-> Undefined],
   [id |-> Str("CVE-2023-1234"), metricVersion |-> Undefined],
   [id |-> Undefined, metricVersion |-> Str("3.1")]}

InitStore ==
  /\ cve = Undefined
  /\ call = "none"
  /\ out = NoResult
  /\ score = 0
  /\ history = <<>>
  /\ left = MaxOps
  /\ cve_entries = <<>>
  /\ manager = NewManager
  /\ files = NoFile

CallSaveEntries ==
  /\ \E entries \in EntryLists, options \in SaveOptions : SaveToSqlite(entries, options)
  /\ UNCHANGED history

\* queryEntries(options): the connection opened and left open; the query
\* fails when the file holds no table
CallQueryEntries ==
  /\ left > 0
  /\ left' = left - 1
  /\ manager' = openDatabase(manager)
  /\ files' = [files EXCEPT !.exists = TRUE]
  /\ call' = "queryEntries"
  /\ \E options \in QueryOptions :
       out' = IF files.table
                THEN [kind |-> "entries", entries |-> queryEntries(cve_entries, options)]
                ELSE [kind |-> "rejected"]
  /\ UNCHANGED <<cve, score, history, cve_entries>>

\* getStats(), and likewise getSeverityDistribution, getAverageBaseScore and
\* the other aggregate queries: the connection opened and left open
CallGetStats ==
  /\ left > 0
  /\ left' = left - 1
  /\ manager' = openDatabase(manager)
  /\ files' = [files EXCEPT !.exists = TRUE]
  /\ call' = "getStats"
  /\ out' = IF files.table
              THEN [kind |-> "stats", totalEntries |-> Len(cve_entries)]
              ELSE [kind |-> "rejected"]
  /\ UNCHANGED <<cve, score, history, cve_entries>>

\* close(): the connection this.db refers to is closed
CallClose ==
  /\ left > 0
  /\ left' = left - 1
  /\ manager' = closeDatabase(manager)
  /\ call' = "close"
  /\ out' = [kind |-> "closed"]
  /\ UNCHANGED <<cve, score, history, cve_entries, files>>

NextStore ==
  \/ CallSaveEntries
  \/ CallQueryEntries
  \/ CallGetStats
  \/ CallClose

SpecStore == InitStore /\ [][NextStore]_vars

---------------------------------------------------------------------------
(* The detect-ddos command line, src/src/test-status-values.ts 350-413:    *)
(* runCli and the catch that ends the process when it rejects.             *)

UsageExit == 2
ErrorExit == 1

\* rank[a] >= rank[min]; a min that is no confidence has no rank, and the
\* comparison with undefined is false
confPass(a, min) ==
  LET rank == [LOW |-> 0, MEDIUM |-> 1, HIGH |-> 2]
  IN min \in DOMAIN rank /\ rank[a] >= rank[min]

\* the word after --min in upper case, LOW when the flag or the word is missing
minConfOf(args) ==
  LET at == {j \in 1..Len(args) : args[j] = "--min"}
      word == IF at = {} THEN "LOW"
              ELSE IF Min(at) < Len(args) THEN toUpperCase(args[Min(at) + 1]) ELSE ""
  IN IF word = "" THEN "LOW" ELSE word

\* data.vulnerabilities when it is an array, data when it is one, else none
itemsOf(data) ==
  IF IsArray(Get(data, "vulnerabilities")) THEN Get(data, "vulnerabilities").a
  ELSE IF IsArray(data) THEN data.a
  ELSE <<>>

\* const cve = it?.cve ?? it
cveOfItem(it) == Coalesce(Get(it, "cve"), it)

\* Variant of cliThrows: only the read of the file can fail.
cliThrowsReadOnly(file) == ~file.readable

\* what makes runCli reject: readFileSync throws, JSON.parse throws, or
\* getDdosAnalysisDetails throws on an item
cliThrows(file) ==
  \/ ~file.readable
  \/ ~file.json
  \/ \E j \in 1..Len(itemsOf(file.data)) :
       getDdosAnalysisDetails(cveOfItem(itemsOf(file.data)[j])) = Thrown

\* the exit code, and the ids reported as ddos=true
runCli(args, file) ==
  IF Len(args) < 1 THEN [kind |-> "exit", code |-> UsageExit, passed |-> <<>>]
  ELSE IF cliThrows(file) THEN [kind |-> "exit", code |-> ErrorExit, passed |-> <<>>]
  ELSE LET items == IF file.json THEN itemsOf(file.data) ELSE <<>>
           passes(it) ==
             LET analysis == getDdosAnalysisDetails(cveOfItem(it))
             IN analysis.isDdosRelated /\ confPass(analysis.confidence, minConfOf(args))
           idOf(it) ==
             LET c == cveOfItem(it)
             IN OrElse(Get(c, "id"), OrElse(Get(Get(c, "cve"), "id"), Str("UNKNOWN")))
           hits == SelectSeq(items, passes)
       IN [kind |-> "exit", code |-> 0, passed |-> [j \in 1..Len(hits) |-> idOf(hits[j])]]

\* the records a feed may hold: well-formed ones, values that are no record,
\* and records on which the classifier throws
FeedItems ==
  RepeatedInputs \cup NotRecords \cup {r \in Records : allMetricEntriesThrows(r)}

FeedData ==
  {Obj([vulnerabilities |-> Arr(<<Obj([cve |-> r])>>)]) : r \in FeedItems}
  \cup {Arr(<<r>>) : r \in FeedItems}
  \cup {Obj([vulnerabilities |-> Arr(<<Obj([cve |-> a]), Obj([cve |-> b])>>)]) :
          a \in RepeatedInputs, b \in {r \in Records : allMetricEntriesThrows(r)}}
  \cup {Null, EmptyObject, EmptyArray, Str("[]"), Obj([vulnerabilities |-> EmptyArray])}

FeedFiles ==
  {[readable |-> FALSE, json |-> FALSE, data |-> Undefined],
   [readable |-> TRUE, json |-> FALSE, data |-> Undefined]}
  \cup {[readable |-> TRUE, json |-> TRUE, data |-> d] : d \in FeedData}

CliArgs ==
  {<<>>, <<"nvd.json">>, <<"nvd.json", "--min", "high">>, <<"nvd.json", "--min">>,
   <<"nvd.json", "--json", "--min", "urgent">>}

InitCli ==
  /\ cve \in {[t |-> "process", args |-> a, file |-> f] : a \in CliArgs, f \in FeedFiles}
  /\ call = "none"
  /\ out = NoResult
  /\ score = 0
  /\ history = <<>>
  /\ left = 1
  /\ cve_entries = <<>>
  /\ manager = NewManager
  /\ files = NoFile

CallRunCli == Invoke("runCli", runCli(cve.args, cve.file), 0)

NextCli == CallRunCli

SpecCli == InitCli /\ [][NextCli]_vars

---------------------------------------------------------------------------
(* What the properties below speak of.                                     *)

StrictVerdict == call = "getDdosAnalysisDetails" /\ out.kind = "verdict"
TightVerdict == call = "getDdosAnalysisDetailsTight" /\ out.kind = "verdict"

ListEntries(c, key) ==
  LET list == Get(Get(c, "metrics"), key) IN IF IsArray(list) THEN list.a ELSE <<>>

\* the metric entries of a record, most authoritative version first
EntriesInOrder(c) ==
  ListEntries(c, "cvssMetricV40") \o ListEntries(c, "cvssMetricV31")
  \o ListEntries(c, "cvssMetricV30") \o ListEntries(c, "cvssMetricV2")

\* the value a cvssData block carries under one of the keys, read without
\* regard to letter case
Carries(entry, keys, values) ==
  \E k \in keys : toUpperCase(StringOf(Get(Get(entry, "cvssData"), k))) \in values

NetworkAndAvailable(entry) ==
  /\ Carries(entry, {"attackVector", "accessVector", "av"}, {"NETWORK", "ADJACENT"})
  /\ Carries(entry, {"availabilityImpact", "va"}, {"HIGH", "COMPLETE", "H"})

NoEntryHasProfile(c) ==
  \A j \in 1..Len(EntriesInOrder(c)) : ~NetworkAndAvailable(EntriesInOrder(c)[j])

\* the strict gate's result and the four pieces of evidence of a record
StrictGate(c) == metricsPassGate(extractNormCvss(c))
Lexicon(c) == hasAmplificationLexicon(getEnglishDescription(c))
Negative(c) == hasNegativeHints(getEnglishDescription(c))
StrongCwe(c) == hasStrongDdosCwe(getCweIds(c))
RefHint(c) == hasDdosRefHints(getReferences(c))

Points(b, n) == IF b THEN n ELSE 0

\* C1: in the strict and in the tight getDdosAnalysisDetails, a record none of
\* whose metric entries has attack vector NETWORK or ADJACENT together with
\* availability impact HIGH or COMPLETE gets isDdosRelated = false and
\* confidence LOW, whatever its description, CWEs and references.
C1_GateNecessity ==
  (StrictVerdict \/ TightVerdict) /\ NoEntryHasProfile(cve)
    => out.isDdosRelated = FALSE /\ out.confidence = "LOW"

\* C2 as claimed: the strict verdict has isDdosRelated = (confidence # LOW).
C2_RelatedIffNotLow ==
  StrictVerdict => (out.isDdosRelated <=> out.confidence # "LOW")

\* C2 as amended: the strict verdict has isDdosRelated = true exactly when the
\* score is at least 2; MEDIUM and HIGH verdicts are DDoS-related, and a verdict
\* {isDdosRelated: true, confidence: LOW} is the one of a score of 2 or 3.
C2_RelatedIffScoreAtLeastTwo ==
  StrictVerdict =>
    /\ out.isDdosRelated <=> score >= 2
    /\ out.confidence # "LOW" => out.isDdosRelated
    /\ (out.isDdosRelated /\ out.confidence = "LOW") <=> score \in {2, 3}

C2_Witness ==
  StrictVerdict /\ out.isDdosRelated /\ out.confidence = "LOW" /\ score = 3

\* C3: for a record that passes the strict gate, the score is 1 + the gate
\* bonus, + 3 for a lexicon match, - 2 for a negative-signal match, + 2 for a
\* strong CWE, + 2 for a reference hint, each term applied once.
C3_ScoreFormula ==
  StrictVerdict /\ StrictGate(cve).passed =>
    score = 1 + StrictGate(cve).bonus + Points(Lexicon(cve), 3) - Points(Negative(cve), 2)
              + Points(StrongCwe(cve), 2) + Points(RefHint(cve), 2)

\* lexicon and negative signal in one description, two strong CWEs, a vendor link
C3_Witness ==
  /\ StrictVerdict /\ StrictGate(cve).passed
  /\ Lexicon(cve) /\ Negative(cve) /\ RefHint(cve)
  /\ Cardinality({j \in 1..Len(getCweIds(cve)) : getCweIds(cve)[j] \in StrongDdosCwe}) = 2
  /\ score = 1 + StrictGate(cve).bonus + 3 - 2 + 2 + 2

\* C4: for a record that passes the strict gate, confidence is HIGH exactly when
\* score >= 6, MEDIUM exactly when 4 <= score < 6, LOW exactly when score < 4;
\* with no bonus and a lexicon match as the only evidence it is MEDIUM.
C4_ConfidenceMapping ==
  StrictVerdict /\ StrictGate(cve).passed =>
    /\ out.confidence = "HIGH" <=> score >= 6
    /\ out.confidence = "MEDIUM" <=> (4 <= score /\ score < 6)
    /\ out.confidence = "LOW" <=> score < 4
    /\ (/\ StrictGate(cve).bonus = 0 /\ Lexicon(cve) /\ ~Negative(cve)
        /\ ~StrongCwe(cve) /\ ~RefHint(cve)) => out.confidence = "MEDIUM"

C4_Witness ==
  /\ StrictVerdict /\ StrictGate(cve).passed /\ StrictGate(cve).bonus = 0
  /\ Lexicon(cve) /\ ~Negative(cve) /\ ~StrongCwe(cve) /\ ~RefHint(cve)
  /\ score = 4 /\ out.confidence = "MEDIUM"

\* C5: for a record-shaped input getDdosAnalysisDetails returns a verdict and
\* never throws, whichever sub-field is absent or of an unexpected type.
C5_NeverThrows ==
  (/\ call \in {"getDdosAnalysisDetails", "getDdosAnalysisDetailsTight"}
   /\ cve.t = "object") => out.kind = "verdict"

\* C6 as claimed: for an input that is no record (null, undefined, a string, a
\* number) the outcome is an error and never a verdict.
C6_NotRecordIsError ==
  call # "none" /\ cve \in NotRecords => out.kind = "throw"

\* C6 as amended: for an input that is no record no entry point throws; the
\* gated getDdosAnalysisDetails return {false, LOW, [gate-failure reason]}, the
\* keyword one {false, LOW, []}, and every detectDdosRelated returns false: the
\* result of a record classified as not DDoS-related.
C6_NotRecordIsNegativeVerdict ==
  call # "none" /\ cve \in NotRecords =>
    CASE call = "getDdosAnalysisDetails" -> out = Verdict(FALSE, <<GateFailedStrict>>, "LOW")
      [] call = "getDdosAnalysisDetailsTight" -> out = Verdict(FALSE, <<GateFailedTight>>, "LOW")
      [] call = "getDdosAnalysisDetailsLegacy" -> out = Verdict(FALSE, <<>>, "LOW")
      [] OTHER -> out = Boolean(FALSE)

C6_Witness ==
  /\ cve = Null /\ call = "getDdosAnalysisDetails"
  /\ out.kind = "verdict" /\ out.isDdosRelated = FALSE

C8_GateFailureShortCircuit ==
  (/\ StrictVerdict
   /\ \A j \in 1..Len(EntriesInOrder(cve)) : ~gateProfile(normOf(EntriesInOrder(cve)[j])))
    => /\ Len(out.reasons) = 1
       /\ out = Verdict(FALSE,
                        <<"CVSS gate failed (need AV: Network/Adjacent, A: High, C/I: Low)">>,
                        "LOW")

C8_Witness ==
  /\ StrictVerdict /\ ~StrictGate(cve).passed /\ Len(EntriesInOrder(cve)) > 0
  /\ Lexicon(cve) /\ StrongCwe(cve) /\ RefHint(cve)
  /\ Len(out.reasons) = 1

\* the impact values of the CVSS scales, written out or abbreviated
ImpactValues == {"NONE", "LOW", "HIGH", "PARTIAL", "COMPLETE", "N", "L", "H", "P", "C"}

\* absent, NONE or LOW: no source key carries another impact value
ImpactAtMostLow(entry, keys) ==
  ~Carries(entry, keys, ImpactValues \ {"NONE", "LOW", "N", "L"})

\* C9: in the strict variant an entry satisfies the gate only if its
\* confidentiality impact and its integrity impact are each absent, NONE or LOW.
C9_GateNeedsLowCI ==
  StrictVerdict =>
    \A j \in 1..Len(EntriesInOrder(cve)) :
      gateProfile(normOf(EntriesInOrder(cve)[j])) =>
        /\ ImpactAtMostLow(EntriesInOrder(cve)[j], {"confidentialityImpact", "vc"})
        /\ ImpactAtMostLow(EntriesInOrder(cve)[j], {"integrityImpact", "vi"})

Satisfying(c) ==
  {j \in 1..Len(EntriesInOrder(c)) : gateProfile(normOf(EntriesInOrder(c)[j]))}

FirstSatisfying(c) == normOf(EntriesInOrder(c)[Min(Satisfying(c))])

\* C10: entries are examined in the order v4.0, v3.1, v3.0, v2 and evaluation
\* stops at the first that satisfies the profile: the gate reason, the bonus
\* notes and the bonus in the score are those of that entry.
C10_FirstSatisfyingEntryDecides ==
  StrictVerdict /\ Satisfying(cve) # {} =>
    LET n == FirstSatisfying(cve)
    IN /\ SubSeq(out.reasons, 1, 1 + gateBonus(n)) = gateHit(n).reasons
       /\ score = 1 + gateBonus(n) + Points(Lexicon(cve), 3) - Points(Negative(cve), 2)
                    + Points(StrongCwe(cve), 2) + Points(RefHint(cve), 2)

\* two satisfying entries in lists of different versions, the later one with
\* the larger bonus
C10_Witness ==
  /\ StrictVerdict
  /\ ListEntries(cve, "cvssMetricV40") # <<>> /\ ListEntries(cve, "cvssMetricV31") # <<>>
  /\ Cardinality(Satisfying(cve)) = 2
  /\ \E j \in Satisfying(cve) :
       /\ j > Min(Satisfying(cve))
       /\ gateBonus(normOf(EntriesInOrder(cve)[j])) > gateBonus(FirstSatisfying(cve))
  /\ score = 1 + gateBonus(FirstSatisfying(cve)) + Points(Lexicon(cve), 3) + Points(RefHint(cve), 2)

\* the entry the gate matched, as the record carries it
MatchingEntry(c) == EntriesInOrder(c)[Min(Satisfying(c))]

MatchIsV2(c) ==
  /\ Min(Satisfying(c)) > Len(EntriesInOrder(c)) - Len(ListEntries(c, "cvssMetricV2"))
  /\ ~Carries(MatchingEntry(c), {"privilegesRequired", "pr", "userInteraction", "ui"},
              {"NONE", "LOW", "HIGH", "REQUIRED", "N", "L", "H", "R"})

\* how many of privilegesRequired = NONE, userInteraction = NONE and
\* attackComplexity = LOW hold on an entry
ConditionsHeld(entry) ==
  Points(Carries(entry, {"privilegesRequired", "pr"}, {"NONE", "N"}), 1)
  + Points(Carries(entry, {"userInteraction", "ui"}, {"NONE", "N"}), 1)
  + Points(Carries(entry, {"attackComplexity", "accessComplexity", "ac"}, {"LOW", "L"}), 1)

\* C11: when the strict gate passes, the bonus is the number of the conditions
\* privilegesRequired = NONE, userInteraction = NONE, attackComplexity = LOW that
\* hold on the matching entry, so between 0 and 3, and at most 1 when that entry
\* is a v2 entry; when the gate fails the bonus is 0.
C11_GateBonus ==
  StrictVerdict =>
    IF StrictGate(cve).passed
      THEN /\ Satisfying(cve) # {}
           /\ StrictGate(cve).bonus = ConditionsHeld(MatchingEntry(cve))
           /\ StrictGate(cve).bonus \in 0..3
           /\ MatchIsV2(cve) => StrictGate(cve).bonus <= 1
           /\ score = 1 + StrictGate(cve).bonus + Points(Lexicon(cve), 3)
                        - Points(Negative(cve), 2) + Points(StrongCwe(cve), 2)
                        + Points(RefHint(cve), 2)
      ELSE StrictGate(cve).bonus = 0 /\ score = 0

\* a matching entry with privilegesRequired LOW: two of the three conditions hold
C11_Witness ==
  /\ StrictVerdict /\ StrictGate(cve).passed /\ StrictGate(cve).bonus = 2
  /\ Carries(MatchingEntry(cve), {"privilegesRequired"}, {"LOW"})
  /\ Carries(MatchingEntry(cve), {"userInteraction"}, {"NONE"})

\* an entry with the profile of the strict gate: attack vector NETWORK or
\* ADJACENT, availability HIGH or COMPLETE, confidentiality and integrity at
\* most LOW
HasProfile(entry) ==
  /\ NetworkAndAvailable(entry)
  /\ ImpactAtMostLow(entry, {"confidentialityImpact", "vc"})
  /\ ImpactAtMostLow(entry, {"integrityImpact", "vi"})

\* the entries type-priority selection would pick, one per version list
Preferred(c) ==
  {pickByTypePriority(Get(Get(c, "metrics"), VersionKeys[j])) : j \in 1..Len(VersionKeys)}

\* C12: the strict gate passes whenever at least one entry of any of the four
\* version lists has the profile, also when that entry is not the one
\* type-priority selection picks and when entries of more authoritative
\* versions lack the profile.
C12_GateSufficiency ==
  StrictVerdict /\ (\E j \in 1..Len(EntriesInOrder(cve)) : HasProfile(EntriesInOrder(cve)[j]))
    => /\ StrictGate(cve).passed
       /\ out.reasons # <<GateFailedStrict>>
       /\ SubSeq(out.reasons[1], 1, 10) = "CVSS gate:"

\* the only entry with the profile is a secondary one behind a primary one,
\* and the list of a more authoritative version holds an entry without it
C12_Witness ==
  /\ StrictVerdict /\ StrictGate(cve).passed
  /\ ListEntries(cve, "cvssMetricV40") # <<>>
  /\ ~HasProfile(ListEntries(cve, "cvssMetricV40")[1])
  /\ \A p \in Preferred(cve) : p.t = "null" \/ ~HasProfile(p)
  /\ \E j \in 1..Len(EntriesInOrder(cve)) : HasProfile(EntriesInOrder(cve)[j])

Only(found, reason) == IF found THEN <<reason>> ELSE <<>>

\* C13: for a record that passes the strict gate the reasons are the evidence
\* in evaluation order: the gate reason with its PR/UI/AC notes, then the
\* lexicon reason, the negative-signal reason, the CWE reason and the reference
\* reason, each exactly when its evidence was found and each at most once.
C13_ReasonTrailOrder ==
  StrictVerdict /\ StrictGate(cve).passed =>
    /\ SubSeq(out.reasons[1], 1, 10) = "CVSS gate:"
    /\ SubSeq(out.reasons, 2, 1 + StrictGate(cve).bonus)
         = Only(Carries(MatchingEntry(cve), {"privilegesRequired", "pr"}, {"NONE", "N"}), "PR:N")
           \o Only(Carries(MatchingEntry(cve), {"userInteraction", "ui"}, {"NONE", "N"}), "UI:N")
           \o Only(Carries(MatchingEntry(cve), {"attackComplexity", "accessComplexity", "ac"},
                           {"LOW", "L"}), "AC:L")
    /\ SubSeq(out.reasons, 2 + StrictGate(cve).bonus, Len(out.reasons))
         = Only(Lexicon(cve), "Amplification/reflection/spoofing lexicon found")
           \o Only(Negative(cve), "Negative indicators for generic/local DoS or non-DDoS web vulns")
           \o Only(StrongCwe(cve), "Strong DDoS CWE present: " \o join(getCweIds(cve), ", "))
           \o Only(RefHint(cve), "References indicate DDoS/amplification")

\* all four pieces of evidence behind a gate reason with at least two notes
C13_Witness ==
  /\ StrictVerdict /\ StrictGate(cve).passed /\ StrictGate(cve).bonus >= 2
  /\ Lexicon(cve) /\ Negative(cve) /\ StrongCwe(cve) /\ RefHint(cve)
  /\ Len(out.reasons) = 5 + StrictGate(cve).bonus

\* the description entry whose text is scanned: the first one tagged en when
\* its value is not empty, else the first entry
ScannedIndex(c) ==
  LET d == Get(c, "descriptions").a
      hits == {j \in 1..Len(d) : Get(d[j], "lang") = Str("en")}
  IN IF hits # {} /\ Truthy(Get(d[Min(hits)], "value")) THEN Min(hits) ELSE 1

HasScanned(c) ==
  /\ IsArray(Get(c, "descriptions")) /\ Len(Get(c, "descriptions").a) > 0
  /\ IsString(Get(Get(c, "descriptions").a[ScannedIndex(c)], "value"))

ScannedText(c) == Get(Get(c, "descriptions").a[ScannedIndex(c)], "value").s

\* the same record with another text in the scanned entry
WithScanned(c, text) ==
  LET d == Get(c, "descriptions").a
      j == ScannedIndex(c)
  IN Obj([c.o EXCEPT !["descriptions"] =
            Arr([d EXCEPT ![j] = Obj([d[j].o EXCEPT !["value"] = Str(text)])])])

AddedLexicon == {"amplification", "DNS", "mssql"}

\* C14 as claimed: adding an amplification keyword to the description, at its
\* end or at its start, never lowers the strict score: it raises it by 3 or
\* leaves it unchanged.
C14_LexiconKeywordAnywhere ==
  StrictVerdict /\ HasScanned(cve) =>
    \A k \in AddedLexicon :
      \A text \in {ScannedText(cve) \o " " \o k, k \o " " \o ScannedText(cve)} :
        analysisScore(WithScanned(cve, text)) \in {score, score + 3}

\* C14 as amended: appending an amplification keyword to the description as a
\* word of its own never lowers the strict score: it raises it by 3 when the
\* lexicon did not match before and leaves it unchanged when it did.
C14_LexiconKeywordAppended ==
  StrictVerdict /\ HasScanned(cve) =>
    \A k \in AddedLexicon :
      analysisScore(WithScanned(cve, ScannedText(cve) \o " " \o k))
        = IF StrictGate(cve).passed /\ ~Lexicon(cve) THEN score + 3 ELSE score

\* a gate-passing record with a negative signal and no lexicon match, whose
\* score the appended keyword raises by 3
C14_Witness ==
  /\ StrictVerdict /\ HasScanned(cve) /\ StrictGate(cve).passed
  /\ ~Lexicon(cve) /\ Negative(cve)
  /\ analysisScore(WithScanned(cve, ScannedText(cve) \o " mssql")) = score + 3

AddedNegative == {"sql injection", "Crash", "local user"}

\* C15: adding a negative-signal keyword to the description, at its end or at
\* its start, never raises the strict score: it lowers it by 2 when no negative
\* signal matched before and leaves it unchanged when one did. The penalty is no
\* veto: a gate-passing record with a negative match and a score of at least 4
\* is DDoS-related.
C15_NegativeKeywordLowers ==
  StrictVerdict /\ HasScanned(cve) =>
    /\ \A k \in AddedNegative :
         \A text \in {ScannedText(cve) \o " " \o k, k \o " " \o ScannedText(cve)} :
           analysisScore(WithScanned(cve, text))
             = IF StrictGate(cve).passed /\ ~Negative(cve) THEN score - 2 ELSE score
    /\ StrictGate(cve).passed /\ Negative(cve) /\ score >= 4 => out.isDdosRelated

\* a record with the lexicon and a negative signal in one description that is
\* still DDoS-related, and whose score a second negative keyword leaves as it is
C15_Witness ==
  /\ StrictVerdict /\ HasScanned(cve) /\ StrictGate(cve).passed
  /\ Lexicon(cve) /\ Negative(cve) /\ score >= 4 /\ out.isDdosRelated
  /\ analysisScore(WithScanned(cve, ScannedText(cve) \o " local user")) = score

Reverse(seq) == [j \in 1..Len(seq) |-> seq[Len(seq) + 1 - j]]

\* the same record with its weaknesses in another order or number
WithWeaknesses(c, list) == Obj([c.o EXCEPT !["weaknesses"] = Arr(list)])

HasWeaknesses(c) == c.t = "object" /\ IsArray(Get(c, "weaknesses"))

\* C16: two records that differ only in the order of their CWE identifiers get
\* the same verdict from the strict getDdosAnalysisDetails: the same
\* isDdosRelated, the same confidence and the same reasons.
C16_CweOrderIndependence ==
  StrictVerdict /\ HasWeaknesses(cve) =>
    analysisVerdict(WithWeaknesses(cve, Reverse(Get(cve, "weaknesses").a))) = out

\* C17: repeating a CWE identifier in the weaknesses of a record does not
\* change the strict score; the strong CWEs of a record add 2 to the score once,
\* however often and however many of them appear.
C17_DuplicateCweIdempotent ==
  StrictVerdict /\ HasWeaknesses(cve) =>
    LET w == Get(cve, "weaknesses").a
    IN /\ \A j \in 1..Len(w) : analysisScore(WithWeaknesses(cve, Append(w, w[j]))) = score
       /\ analysisScore(WithWeaknesses(cve, w \o w)) = score
       /\ score - analysisScore(WithWeaknesses(cve, <<>>))
            = IF StrictGate(cve).passed /\ (\E j \in 1..Len(getCweIds(cve)) :
                                              getCweIds(cve)[j] \in {"CWE-405", "CWE-406", "CWE-770"})
                THEN 2 ELSE 0

\* the same strong CWE twice, and two distinct strong CWEs, count once
C17_Witness ==
  /\ StrictVerdict /\ StrictGate(cve).passed
  /\ getCweIds(cve) \in {<<"CWE-405", "CWE-405">>, <<"CWE-405", "CWE-770">>}
  /\ score = 1 + StrictGate(cve).bonus + Points(Lexicon(cve), 3) - Points(Negative(cve), 2)
               + 2 + Points(RefHint(cve), 2)

LowerData(d) ==
  IF d.t = "object"
    THEN Obj([k \in DOMAIN d.o |-> IF IsString(d.o[k]) THEN Str(toLowerCase(d.o[k].s)) ELSE d.o[k]])
    ELSE d

LowerEntry(e) ==
  IF e.t = "object" /\ "cvssData" \in DOMAIN e.o
    THEN Obj([e.o EXCEPT !["cvssData"] = LowerData(e.o["cvssData"])])
    ELSE e

LowerList(l) == IF IsArray(l) THEN Arr([j \in 1..Len(l.a) |-> LowerEntry(l.a[j])]) ELSE l

\* the same record with every CVSS enum string of its metric entries in lower case
WithLowerCaseEnums(c) ==
  IF c.t = "object" /\ Get(c, "metrics").t = "object"
    THEN LET m == Get(c, "metrics").o
         IN Obj([c.o EXCEPT !["metrics"] = Obj([k \in DOMAIN m |-> LowerList(m[k])])])
    ELSE c

\* C18: changing only the letter case of the CVSS enum strings of a record's
\* metric entries changes neither the gate result, nor the bonus, nor the
\* verdict of a detector.
C18_EnumCaseInsensitive ==
  /\ StrictVerdict =>
       /\ getDdosAnalysisDetails(WithLowerCaseEnums(cve)) = out
       /\ StrictGate(WithLowerCaseEnums(cve)) = StrictGate(cve)
  /\ TightVerdict => getDdosAnalysisDetailsTight(WithLowerCaseEnums(cve)) = out
  /\ call = "getDdosAnalysisDetailsLegacy" =>
       getDdosAnalysisDetailsLegacy(WithLowerCaseEnums(cve)) = out

\* the text of a description entry, "" when it has none
ValueText(entry) ==
  IF Truthy(Get(entry, "value")) THEN StringOf(Get(entry, "value")) ELSE ""

EnglishEntries(c) ==
  {j \in 1..Len(Get(c, "descriptions").a) : Get(Get(c, "descriptions").a[j], "lang") = Str("en")}

HasDescriptions(c) == IsArray(Get(c, "descriptions")) /\ Len(Get(c, "descriptions").a) > 0

\* what a given text means for the verdict of a gate-passing record
ScansAs(text) ==
  StrictVerdict /\ StrictGate(cve).passed =>
    (\E j \in 1..Len(out.reasons) : out.reasons[j] = LexiconReason)
      <=> hasAmplificationLexicon(toLowerCase(text))

\* C19 as claimed: the text scanned is the value of the English-tagged entry
\* whenever the record has one, the value of the first entry only when no entry
\* is tagged English, and the empty string only when there are no descriptions.
C19_EnglishEntryWheneverPresent ==
  call # "none" /\ out.kind # "throw" =>
    LET text == IF ~HasDescriptions(cve) THEN ""
                ELSE IF EnglishEntries(cve) # {}
                  THEN ValueText(Get(cve, "descriptions").a[Min(EnglishEntries(cve))])
                ELSE ValueText(Get(cve, "descriptions").a[1])
    IN /\ getEnglishDescription(cve) = toLowerCase(text)
       /\ getEnglishDescriptionTable(cve) = text
       /\ ScansAs(text)

\* C19 as amended: the text scanned is the value of the first English-tagged
\* entry when that entry has a non-empty value; otherwise it is the value of the
\* first entry, also when an entry is tagged English; it is the empty string
\* when there are no descriptions or the first entry has no value either.
C19_EnglishEntryWhenNotEmpty ==
  call # "none" /\ out.kind # "throw" =>
    LET d == Get(cve, "descriptions").a
        text == IF ~HasDescriptions(cve) THEN ""
                ELSE IF EnglishEntries(cve) # {} /\ ValueText(d[Min(EnglishEntries(cve))]) # ""
                  THEN ValueText(d[Min(EnglishEntries(cve))])
                ELSE ValueText(d[1])
    IN /\ getEnglishDescription(cve) = toLowerCase(text)
       /\ getEnglishDescriptionTable(cve) = text
       /\ ScansAs(text)

\* the English entry stands behind an entry in another language that holds a
\* lexicon keyword, and the English text is the one scanned
C19_Witness ==
  /\ StrictVerdict /\ StrictGate(cve).passed /\ HasDescriptions(cve)
  /\ Min(EnglishEntries(cve) \cup {3}) = 2
  /\ hasAmplificationLexicon(ValueText(Get(cve, "descriptions").a[1]))
  /\ ValueText(Get(cve, "descriptions").a[2]) # ""
  /\ \A j \in 1..Len(out.reasons) : out.reasons[j] # LexiconReason

---------------------------------------------------------------------------
(* C20                                                                     *)

\* the strict classifier flags the record
StrictFlags(c) == ~allMetricEntriesThrows(c) /\ analysisVerdict(c).isDdosRelated

\* the rows the table holds under the keys of the entries just saved
SavedRows ==
  {r \in {cve_entries[j] : j \in 1..Len(cve_entries)} :
     \E k \in 1..Len(out.entries) : keyOf(r) = keyOf(rowOf(out.entries[k]))}

\* C20: every table entry that extractTableEntriesFromJson produces for a
\* record carries isDdosRelated equal to the classifier's isDdosRelated verdict
\* for that record, and after the entries are saved no row of a record the
\* classifier flags holds isDdosRelated = 0.
C20_VerdictReachesStorage ==
  /\ call = "extractTableEntriesFromJson" =>
       \A j \in 1..Len(out.entries) : out.entries[j].isDdosRelated = StrictFlags(cve)
  /\ (call = "saveToSqlite" /\ StrictFlags(cve)) =>
       \A r \in SavedRows : r.isDdosRelated # 0

\* every entry the converter produces is unflagged, whatever the classifiers
\* say of the record
C20_EntriesNeverFlagged ==
  call = "extractTableEntriesFromJson" =>
    \A j \in 1..Len(out.entries) : ~out.entries[j].isDdosRelated

\* a record all three classifiers call DDoS-related, saved with isDdosRelated 0
C20_FlaggedStoredAsZero ==
  /\ call = "saveToSqlite"
  /\ out.saveMode = "upsert"
  /\ StrictFlags(cve)
  /\ detectDdosRelated(cve) = Boolean(TRUE)
  /\ detectDdosRelatedTight(cve) = Boolean(TRUE)
  /\ detectDdosRelatedLegacy(cve) = Boolean(TRUE)
  /\ SavedRows # {}
  /\ \A r \in SavedRows : r.isDdosRelated = 0

---------------------------------------------------------------------------
(* C21                                                                     *)

Picked == call = "pickByTypePriority"

\* the positions of the list whose entry is typed t, in any letter case
TypedAs(t) ==
  {j \in 1..Len(cve.a) :
     LET type == Get(cve.a[j], "type")
     IN IsString(type) /\ toLowerCase(type.s) = t}

\* C21: for a non-empty list pickByTypePriority returns the first entry whose
\* type is 'primary' in any letter case if there is one, otherwise the first
\* whose type is 'secondary', otherwise the first entry; for an empty list and
\* for a value that is no list it returns null.
C21_RepresentativeSelection ==
  Picked =>
    IF IsArray(cve) /\ Len(cve.a) > 0
      THEN out.value =
             IF TypedAs("primary") # {} THEN cve.a[Min(TypedAs("primary"))]
             ELSE IF TypedAs("secondary") # {} THEN cve.a[Min(TypedAs("secondary"))]
             ELSE cve.a[1]
      ELSE out.value = Null

\* a list whose second entry is typed "PRIMARY" and whose first is typed
\* secondary: the second is picked
C21_Witness ==
  /\ Picked
  /\ IsArray(cve) /\ Len(cve.a) = 2
  /\ Get(cve.a[1], "type") = Str("secondary")
  /\ Get(cve.a[2], "type") = Str("PRIMARY")
  /\ out.value = cve.a[2]

---------------------------------------------------------------------------
(* C22                                                                     *)

CliDone == call = "runCli"

\* the file was read and parsed and the classifier returned on every item
AllProcessed ==
  /\ Len(cve.args) >= 1
  /\ cve.file.readable /\ cve.file.json
  /\ \A j \in 1..Len(itemsOf(cve.file.data)) :
       getDdosAnalysisDetails(cveOfItem(itemsOf(cve.file.data)[j])).kind = "verdict"

\* C22: runCli ends with exit code 0 when the feed file was read, parsed and
\* all its records processed, and with a non-zero exit code when the file
\* cannot be read or is not valid JSON.
C22_CliExitStatus ==
  CliDone =>
    /\ AllProcessed => out.code = 0
    /\ (~cve.file.readable \/ ~cve.file.json) => out.code # 0

\* a readable file that is not JSON, named on the command line: exit code 1
C22_Witness ==
  /\ CliDone
  /\ Len(cve.args) >= 1
  /\ cve.file.readable /\ ~cve.file.json
  /\ out.code = ErrorExit

\* a feed of one record that is classified and reported: exit code 0
C22_WitnessProcessed ==
  /\ CliDone
  /\ AllProcessed
  /\ Len(out.passed) = 1
  /\ out.code = 0

---------------------------------------------------------------------------
(* C23                                                                     *)

Saved == call = "saveToSqlite"

\* C23: after any sequence of saveToSqlite calls, in either save mode and with
\* any batch size, the table holds at most one row per (id, metricVersion)
\* pair; rows of one CVE id with different metricVersion stand side by side.
C23_CompositePrimaryKey ==
  \A i, j \in 1..Len(cve_entries) :
    (/\ cve_entries[i].id = cve_entries[j].id
     /\ cve_entries[i].metricVersion = cve_entries[j].metricVersion) => i = j

\* after a second save the table holds the 3.1 and the 2.0 row of one CVE id,
\* the 3.1 row saved twice
C23_Witness ==
  /\ Saved
  /\ files.table /\ out.existed
  /\ \E k \in 1..Len(out.entries) :
       \E b \in 1..Len(out.before) : keyOf(out.before[b]) = keyOf(rowOf(out.entries[k]))
  /\ \E i, j \in 1..Len(cve_entries) :
       /\ cve_entries[i].id = cve_entries[j].id
       /\ cve_entries[i].metricVersion = "3.1"
       /\ cve_entries[j].metricVersion = "2.0"

---------------------------------------------------------------------------
(* C24                                                                     *)

RowsOf(rows) == {rows[j] : j \in 1..Len(rows)}

\* the keys of the entries handed to the save
InputKeys == {keyOf(rowOf(out.entries[k])) : k \in 1..Len(out.entries)}

\* the row of the last input entry with the key
LastWith(key) ==
  LET at == {k \in 1..Len(out.entries) : keyOf(rowOf(out.entries[k])) = key}
  IN rowOf(out.entries[CHOOSE k \in at : \A other \in at : other <= k])

UpsertDone == Saved /\ out.kind = "saved" /\ out.saveMode = "upsert"

\* C24: after a successful saveToSqlite in 'upsert' mode the row of every
\* (id, metricVersion) key of the input holds the values of the last input
\* entry with that key, and every row whose key is not in the input is as it
\* was before.
C24_UpsertSemantics ==
  UpsertDone =>
    /\ \A key \in InputKeys :
         {r \in RowsOf(cve_entries) : keyOf(r) = key} = {LastWith(key)}
    /\ {r \in RowsOf(cve_entries) : keyOf(r) \notin InputKeys}
         = {r \in RowsOf(out.before) : keyOf(r) \notin InputKeys}

\* an upsert that replaces a row with different values, inserts none twice
\* and leaves a row of another key alone
C24_Witness ==
  /\ UpsertDone
  /\ \E b \in RowsOf(out.before) :
       keyOf(b) \in InputKeys /\ b \notin RowsOf(cve_entries)
  /\ \E b \in RowsOf(out.before) :
       keyOf(b) \notin InputKeys /\ b \in RowsOf(cve_entries)

---------------------------------------------------------------------------
(* C25                                                                     *)

\* a saveToSqlite step that changes the table of a file that was there
WritesToExistingFile ==
  /\ call' = "saveToSqlite"
  /\ files.exists
  /\ cve_entries' # cve_entries

\* the step adds a backup that holds the table as it was before the step
BacksUpFirst == files'.backups = Append(files.backups, cve_entries)

---------------------------------------------------------------------------
(* C26                                                                     *)

\* one of the three DDoS-specific signals holds, as the strict and as the
\* tight detector read it
StrictSignal(c) ==
  \/ hasAmplificationLexicon(getEnglishDescription(c))
  \/ hasStrongDdosCwe(getCweIds(c))
  \/ hasDdosRefHints(getReferences(c))

TightSignal(c) ==
  \/ checkAmplificationLexicon(getEnglishDescription(c))
  \/ checkDdosCweIdsTight(getCweIds(c))
  \/ checkReferenceHints(getReferences(c))

Flagged == out.isDdosRelated \/ out.confidence \in {"MEDIUM", "HIGH"}

\* C26: no record is classified DDoS-related, and none is given MEDIUM or HIGH
\* confidence, unless the description matches the amplification lexicon, a
\* strong CWE is present or a reference hints at DDoS; the CVSS gate with its
\* PR/UI/AC bonus is never enough alone.
C26_SignalRequired ==
  /\ (StrictVerdict /\ Flagged) => StrictSignal(cve)
  /\ (TightVerdict /\ Flagged) => TightSignal(cve)

\* the strict detector flags a record on the gate and the bonus alone
C26_StrictGateAlone ==
  /\ StrictVerdict
  /\ ~StrictSignal(cve)
  /\ out.isDdosRelated /\ out.confidence = "MEDIUM"
  /\ score = 4

\* and so does the tight detector
C26_TightGateAlone ==
  /\ TightVerdict
  /\ ~TightSignal(cve)
  /\ out.isDdosRelated /\ out.confidence = "MEDIUM"
  /\ score = 4

---------------------------------------------------------------------------
(* C27                                                                     *)

\* detectDdosRelated has returned b, and getDdosAnalysisDetails of the same
\* module returns details for the same record
Agrees(details) == details.kind = "verdict" /\ out.value = details.isDdosRelated

\* C27: in each classifier module detectDdosRelated returns, for every record,
\* the isDdosRelated field of what that module's getDdosAnalysisDetails
\* returns for the record.
C27_EntryPointsAgree ==
  /\ (call = "detectDdosRelated" /\ out.kind = "boolean") =>
       Agrees(getDdosAnalysisDetails(cve))
  /\ (call = "detectDdosRelatedTight" /\ out.kind = "boolean") =>
       Agrees(getDdosAnalysisDetailsTight(cve))
  /\ (call = "detectDdosRelatedLegacy" /\ out.kind = "boolean") =>
       Agrees(getDdosAnalysisDetailsLegacy(cve))

\* the tight and the keyword module agree on every record
C27_TightAndKeywordAgree ==
  /\ (call = "detectDdosRelatedTight" /\ out.kind = "boolean") =>
       Agrees(getDdosAnalysisDetailsTight(cve))
  /\ (call = "detectDdosRelatedLegacy" /\ out.kind = "boolean") =>
       Agrees(getDdosAnalysisDetailsLegacy(cve))

\* the strict module: detectDdosRelated false, isDdosRelated true with LOW
C27_StrictDisagree ==
  /\ call = "detectDdosRelated"
  /\ out = Boolean(FALSE)
  /\ getDdosAnalysisDetails(cve).isDdosRelated
  /\ getDdosAnalysisDetails(cve).confidence = "LOW"
  /\ score \in {2, 3}

---------------------------------------------------------------------------
(* C28                                                                     *)

SaveRejected == Saved /\ out.kind = "rejected"

\* the table as the batches before the rejecting one left it
BeforeRejectingBatch ==
  processEntriesInBatches(out.before, out.entries, out.batchSize, out.saveMode, FALSE, 0).rows

\* C28: when the insert of an entry of a batch fails, processBatch rejects and
\* none of the entries of that batch is committed: the table is as it was
\* before the batch.
C28_FailedBatchNotCommitted ==
  SaveRejected => cve_entries = BeforeRejectingBatch

\* a batch of a refused entry and a good one rejects, and the row of the good
\* one is in the table afterwards
C28_PartOfFailedBatchCommitted ==
  /\ SaveRejected
  /\ out.entries = <<Refused, Other>>
  /\ out.batchSize = 2
  /\ out.before = <<>>
  /\ cve_entries = <<rowOf(Other)>>

---------------------------------------------------------------------------
(* C29                                                                     *)

\* C29: after any sequence of query operations followed by close(), every
\* connection the manager opened has been closed.
C29_NoLeakedConnections ==
  call = "close" => manager.closed = 1..manager.opened

\* one query and close(): the one connection is closed
C29_OneQueryClosed ==
  /\ call = "close"
  /\ manager.opened = 1
  /\ manager.closed = {1}

\* two queries and close(): the connection of the first query is still open
C29_FirstConnectionLeaked ==
  /\ call = "close"
  /\ manager.opened = 2
  /\ manager.db = 0
  /\ manager.closed = {2}
  /\ cve_entries = <<>>

---------------------------------------------------------------------------
(* C30                                                                     *)

Queried == call = "queryEntries" /\ out.kind = "entries"

\* the entry that was saved as the row a queried entry was read from
SavedAs(entry) ==
  {e \in UNION {RowsOf(list) : list \in EntryLists} :
     /\ rowOf(e) \in RowsOf(cve_entries)
     /\ keyOf(rowOf(e)) = <<entry.id, entry.metricVersion>>}

SameScores(a, b) ==
  /\ a.baseScore = b.baseScore
  /\ a.exploitabilityScore = b.exploitabilityScore
  /\ a.impactScore = b.impactScore

\* C30: an entry saved with saveToSqlite and read back with queryEntries has
\* the baseScore, exploitabilityScore and impactScore that were saved, for
\* every score from 0 to 10 and for the sentinel -1, which is stored as NULL.
C30_ScoreRoundTrip ==
  Queried =>
    \A j \in 1..Len(out.entries) :
      \A e \in SavedAs(out.entries[j]) : SameScores(out.entries[j], e)

\* scores other than 0 come back as saved, -1 included
C30_NonZeroScoresRoundTrip ==
  Queried =>
    \A j \in 1..Len(out.entries) :
      \A e \in SavedAs(out.entries[j]) :
        (e.baseScore # 0 /\ e.exploitabilityScore # 0 /\ e.impactScore # 0)
          => SameScores(out.entries[j], e)

\* the entry saved with the scores 0, 0, 0 is read back with -1, -1, -1
C30_ZeroReadAsMissing ==
  /\ Queried
  /\ rowOf(Rescored) \in RowsOf(cve_entries)
  /\ \E j \in 1..Len(out.entries) :
       /\ SavedAs(out.entries[j]) = {Rescored}
       /\ out.entries[j].baseScore = 0 - 1
       /\ out.entries[j].exploitabilityScore = 0 - 1
       /\ out.entries[j].impactScore = 0 - 1

====
